---- MODULE Spec2Model ----
(***************************************************************************)
(* State-machine model of the plastron admission-control middleware        *)
(* (createPlastron and the functions it uses).  The compiled module text   *)
(* that carries the minute counters and the 429 counter is the one held in *)
(* src/README.md lines 224-573; src/dist/plastron.js is the older build of *)
(* the same functions.                                                     *)
(*                                                                         *)
(* JavaScript numbers are modelled by integers.  The two rate estimates    *)
(* are quotients; they are kept as exact fractions [num, den] and compared *)
(* by cross-multiplication, so no rounding is introduced by the model.     *)
(***************************************************************************)
EXTENDS Integers, Sequences, FiniteSets, TLC

VARIABLES
    options,        \* the merged configuration of this instance (immutable)
    now,            \* the clock read by opts.nowFn()
    monitoredIps,   \* the slot array: index -> address or Undefined
    ipData,         \* the lookup map: tracked address -> id of its record object
    heap,           \* the record objects (IpData) that are still referenced
    globalStats,    \* the GlobalStats object
    pending,        \* admitted requests whose res.send has not run yet
    last,           \* what the latest call did and returned (observation)
    secLog,         \* admissions counted per clock second (observation)
    seen,           \* the addresses that have sent a request (observation)
    steps,          \* how many calls of each kind may still be made (bounding)
    happyServer     \* globalThis.happyServerExtension and the timer of the retry

vars == <<options, now, monitoredIps, ipData, heap, globalStats, pending, last, secLog, seen, steps,
          happyServer>>

----------------------------------------------------------------------------
(* Bounds of the model *)

\* Spec: three addresses share a table of two slots
MaxReq == 3          \* middleware calls
MaxAdd == 1          \* addPointsToIp calls

\* SpecRate: the global limits, over several clock seconds
MaxReqRate == 3      \* middleware calls
MaxTicksRate == 1    \* clock advances

\* SpecFn: the pure functions evaluated on their own
MaxStatus == 700     \* status codes 0..MaxStatus
MaxDepth == 320      \* points down to -MaxDepth
MaxHeight == 30      \* points up to MaxHeight
MaxSlots == 2        \* slots of the tables findEvictableIndex is evaluated on

\* SpecCreate: construction, with and without the registry
MaxReqCreate == 3    \* middleware calls
MaxTicksCreate == 2  \* clock advances

\* SpecLive: the timers of delayed requests
MaxReqLive == 4      \* middleware calls
MaxAddLive == 2      \* addPointsToIp calls

\* SpecBurst: one address up to its rate cap
MaxReqBurst == 12    \* middleware calls
MaxTicksBurst == 1   \* clock advances

\* SpecEvict: two addresses taking each other's slot
MaxReqEvict == 4     \* middleware calls

\* SpecOne: a single address, with time passing
MaxReqOne == 4       \* middleware calls
MaxTicksOne == 2     \* clock advances
MaxAddOne == 1       \* addPointsToIp calls

----------------------------------------------------------------------------
(* Values *)

Undefined == "undefined"

\* The value of the mocked clock at construction.
T0 == 1000000

\* Amounts by which the clock advances between two calls.
TimeSteps == {500, 1000, 60000}

\* Request objects: the fields getClientIp reads.
Requests ==
    { [ip |-> "a", remoteAddress |-> "a"],
      [ip |-> Undefined, remoteAddress |-> "b"],
      [ip |-> Undefined, remoteAddress |-> Undefined] }

Addresses == {"a", "b", "*error*"}

\* Status codes a handler leaves in res.statusCode when it calls res.send.
StatusCodes == {200, 404}

\* Deltas passed to addPointsToIp.
Deltas == {10000, -60000}

rateLimitMessage == "Rate limit exceeded"

Max(a, b) == IF a >= b THEN a ELSE b
Min(a, b) == IF a <= b THEN a ELSE b

\* Math.ceil(n / d) for n >= 0, d > 0
Ceil(n, d) == (n + d - 1) \div d

----------------------------------------------------------------------------
(* Configuration *)

defaultOptions ==
    [ ipMonitorSize |-> 1000,
      maxRequestRatePerSec |-> 0,
      maxRequestNegativeIPperSec |-> 0,
      maxSimultanousConnectionsPerIP |-> 25,
      maxSimultanousConnectionsNegativePerIP |-> 10,
      maxReqPerSecPerIP |-> 30,
      maxReqNegativePerSecPerIP |-> 10,
      ipSlowDownStartsAt |-> -100000,
      ipSlowDownMaxS |-> 5000,
      ipSlowDownMaxPunishmentAt |-> -500000,
      excessiveReqPerS |-> 50,
      excessiveReqPerMin |-> 200,
      pointsForExcessiveRequest |-> -100,
      pointsFor20x |-> 1,
      pointsFor30x |-> 0,
      pointsFor400 |-> -10000,
      pointsFor401 |-> -10000,
      pointsFor404 |-> -100,
      pointsFor40x |-> -10,
      pointsFor50x |-> -20,
      enableDebug |-> FALSE ]

\* {...defaultOptions, ...userOptions}
Merge(base, user) ==
    [k \in DOMAIN base \cup DOMAIN user |-> IF k \in DOMAIN user THEN user[k] ELSE base[k]]

\* The userOptions the instances of the model are constructed with: a table of
\* two slots, small connection caps and a short punishment curve, and on top of
\* that one of the limits that are off by default.
baseUserOptions ==
    [ rateLimitMessage |-> rateLimitMessage,
      ipMonitorSize |-> 2,
      maxSimultanousConnectionsPerIP |-> 2,
      maxSimultanousConnectionsNegativePerIP |-> 1,
      ipSlowDownStartsAt |-> -100,
      ipSlowDownMaxPunishmentAt |-> -300 ]

With(f, k, v) == [x \in DOMAIN f \cup {k} |-> IF x = k THEN v ELSE f[x]]

\* The global limits switched on
limitedUserOptions ==
    With(With(baseUserOptions, "maxRequestRatePerSec", 2), "maxRequestNegativeIPperSec", 1)

rateUserOptions ==
    { With(baseUserOptions, "maxRequestRatePerSec", 1),
      limitedUserOptions,
      With(baseUserOptions, "maxRequestNegativeIPperSec", 1) }

\* Negative addresses shut out, and every request counted as excessive
harshUserOptions ==
    With(With(baseUserOptions, "maxReqNegativePerSecPerIP", 0), "excessiveReqPerS", 0)

\* A maximum slowdown below the 100 ms that calculateSlowdown starts from
shortUserOptions == With(baseUserOptions, "ipSlowDownMaxS", 50)

\* The global limits with debug mode on
debugUserOptions == With(limitedUserOptions, "enableDebug", TRUE)

\* Negative addresses shut out by the per-address rate check
shutUserOptions == With(baseUserOptions, "maxReqNegativePerSecPerIP", 0)

\* One request per second for an address with points >= 0, none for a negative one
burstUserOptions ==
    With(With(With(baseUserOptions, "ipMonitorSize", 1), "maxReqPerSecPerIP", 1),
         "maxReqNegativePerSecPerIP", 0)

\* The same caps with the excessive rate at the cap of an address with points >= 0
tightUserOptions == With(burstUserOptions, "excessiveReqPerS", 1)

\* One open connection per address, whatever its points
evictUserOptions ==
    With(With(baseUserOptions, "maxSimultanousConnectionsPerIP", 1),
         "maxSimultanousConnectionsNegativePerIP", 1)

\* f with the fields of g put over it
Overlay(f, g) == [x \in DOMAIN f \cup DOMAIN g |-> IF x \in DOMAIN g THEN g[x] ELSE f[x]]

\* The default connection caps (25 and 10) over a short punishment curve, and a
\* different number of points for every class of status code
curveUserOptions ==
    [ rateLimitMessage |-> rateLimitMessage,
      ipSlowDownStartsAt |-> -100,
      ipSlowDownMaxPunishmentAt |-> -300,
      pointsFor20x |-> 1,
      pointsFor30x |-> 2,
      pointsFor400 |-> -3,
      pointsFor401 |-> -4,
      pointsFor404 |-> -5,
      pointsFor40x |-> -6,
      pointsFor50x |-> -7 ]

\* The configurations the pure functions are evaluated under: the curve; a cap
\* for negative addresses above the one for positive addresses; a cap of 0 for
\* negative addresses; a maximum slowdown below 100 ms; a curve starting above 0;
\* a curve of length 0; low thresholds of excessive use
fnUserOptions ==
    { curveUserOptions,
      With(curveUserOptions, "maxSimultanousConnectionsNegativePerIP", 30),
      With(curveUserOptions, "maxSimultanousConnectionsNegativePerIP", 0),
      With(curveUserOptions, "ipSlowDownMaxS", 50),
      Overlay(curveUserOptions, [ipSlowDownStartsAt |-> 20, ipSlowDownMaxPunishmentAt |-> -100]),
      With(curveUserOptions, "ipSlowDownMaxPunishmentAt", -100),
      Overlay(curveUserOptions, [excessiveReqPerS |-> 1, excessiveReqPerMin |-> 12]) }

----------------------------------------------------------------------------
(* Pure functions *)

\* req.ip || req.socket?.remoteAddress || '*error*'
getClientIp(req) ==
    IF req.ip # Undefined THEN req.ip
    ELSE IF req.remoteAddress # Undefined THEN req.remoteAddress
    ELSE "*error*"

\* updateTimeWindows deciding by the time elapsed since lastSeenMs
updateTimeWindowsByElapsed(d, nowMs) ==
    LET elapsed == nowMs - d.lastSeenMs
        d1 == IF elapsed >= 60000
              THEN [d EXCEPT !.reqInPrevMin = IF elapsed < 120000 THEN d.reqInCurrentMin ELSE 0,
                             !.reqInCurrentMin = 0]
              ELSE d
    IN  IF elapsed >= 10000
        THEN [d1 EXCEPT !.reqInPrev10Sec = IF elapsed < 20000 THEN d1.reqInCurrent10Sec ELSE 0,
                        !.reqInCurrent10Sec = 0]
        ELSE d1

\* updateTimeWindows carrying the minute count over whenever the minute changed
updateTimeWindowsAlwaysCarry(d, nowMs) ==
    LET currentMin == Ceil(nowMs, 60000)
        current10Sec == Ceil(nowMs, 10000)
        lastMin == Ceil(d.lastSeenMs, 60000)
        last10Sec == Ceil(d.lastSeenMs, 10000)
        d1 == IF currentMin # lastMin
              THEN [d EXCEPT !.reqInPrevMin = d.reqInCurrentMin,
                             !.reqInCurrentMin = 0]
              ELSE d
    IN  IF current10Sec # last10Sec
        THEN [d1 EXCEPT !.reqInPrev10Sec =
                            IF current10Sec = last10Sec + 1 THEN d1.reqInCurrent10Sec ELSE 0,
                        !.reqInCurrent10Sec = 0]
        ELSE d1

\* The record as updateTimeWindows leaves it (lastSeenMs is stamped by the caller).
updateTimeWindows(d, nowMs) ==
    LET currentMin == Ceil(nowMs, 60000)
        current10Sec == Ceil(nowMs, 10000)
        lastMin == Ceil(d.lastSeenMs, 60000)
        last10Sec == Ceil(d.lastSeenMs, 10000)
        d1 == IF currentMin # lastMin
              THEN [d EXCEPT !.reqInPrevMin =
                                 IF currentMin = lastMin + 1 THEN d.reqInCurrentMin ELSE 0,
                             !.reqInCurrentMin = 0]
              ELSE d
    IN  IF current10Sec # last10Sec
        THEN [d1 EXCEPT !.reqInPrev10Sec =
                            IF current10Sec = last10Sec + 1 THEN d1.reqInCurrent10Sec ELSE 0,
                        !.reqInCurrent10Sec = 0]
        ELSE d1

updateGlobalStats(gs, nowMs) ==
    LET currentSec == Ceil(nowMs, 1000)
        prevSec == Ceil(gs.prevSecStartMs, 1000)
        currentMin == Ceil(nowMs, 60000)
        prevMin == Ceil(gs.currentMinStartMs, 60000)
        g1 == IF currentSec # prevSec
              THEN [gs EXCEPT !.reqInPrevSec = gs.reqInCurrentSec,
                              !.reqInCurrentSec = 0,
                              !.negativeReqInCurrentSec = 0,
                              !.prevSecStartMs = gs.currentSecStartMs,
                              !.currentSecStartMs = nowMs]
              ELSE gs
    IN  IF currentMin # prevMin
        THEN [g1 EXCEPT !.reqInPrevMin = g1.reqInCurrentMin,
                        !.reqInCurrentMin = 0,
                        !.rateLimited429InPrevMin = g1.rateLimited429InCurrentMin,
                        !.rateLimited429InCurrentMin = 0,
                        !.currentMinStartMs = nowMs]
        ELSE g1

\* (reqInCurrentSec + reqInPrevSec) / Math.max(1, (nowMs - prevSecStartMs) / 1000),
\* as the fraction num / den with both scaled by 1000.
calculateCurrentReqPerSec(gs, nowMs) ==
    [ num |-> (gs.reqInCurrentSec + gs.reqInPrevSec) * 1000,
      den |-> Max(1000, nowMs - gs.prevSecStartMs) ]

\* (reqInCurrent10Sec + reqInPrev10Sec) / 10
calculate10SecReqPerSec(d) ==
    [ num |-> d.reqInCurrent10Sec + d.reqInPrev10Sec, den |-> 10 ]

\* fraction >= n and fraction > n, for den > 0
FracGE(f, n) == f.num >= n * f.den
FracGT(f, n) == f.num > n * f.den

\* Math.floor(x / y) for y > 0 and any integer x
FloorDiv(x, y) == x \div y

\* fraction <= n, for den > 0
FracLE(f, n) == f.num <= n * f.den

\* ratio = Math.min(1, position / range) as the fraction num / den with den > 0,
\* for points below ipSlowDownStartsAt (position > 0). A range of 0 gives
\* position / range = Infinity and the ratio 1; a negative range gives a
\* negative ratio.
\* The ratio measured from the far end of the curve
punishmentRatioInverted(points, opts) ==
    LET range == opts.ipSlowDownStartsAt - opts.ipSlowDownMaxPunishmentAt
        position == Max(0, opts.ipSlowDownStartsAt - points)
    IN  IF range > 0 THEN [num |-> range - Min(range, position), den |-> range]
        ELSE [num |-> 0, den |-> 1]

punishmentRatio(points, opts) ==
    LET range == opts.ipSlowDownStartsAt - opts.ipSlowDownMaxPunishmentAt
        position == Max(0, opts.ipSlowDownStartsAt - points)
    IN  IF range > 0 THEN [num |-> Min(range, position), den |-> range]
        ELSE IF range = 0 THEN [num |-> 1, den |-> 1]
        ELSE [num |-> 0 - position, den |-> 0 - range]

\* The delay in ms as the fraction num / den: Math.max(100, ratio * ipSlowDownMaxS)
calculateSlowdown(points, opts) ==
    IF points >= opts.ipSlowDownStartsAt THEN [num |-> 0, den |-> 1]
    ELSE LET ratio == punishmentRatio(points, opts)
         IN  IF ratio.num * opts.ipSlowDownMaxS >= 100 * ratio.den
             THEN [num |-> ratio.num * opts.ipSlowDownMaxS, den |-> ratio.den]
             ELSE [num |-> 100, den |-> 1]

\* setTimeout takes the delay as a whole number of ms
timerDelay(slowdownMs) == FloorDiv(slowdownMs.num, slowdownMs.den)

\* fraction f <= fraction g, for positive denominators
FracLEFrac(f, g) == f.num * g.den <= g.num * f.den

\* calculateMaxConnections scaling the cap by ratio instead of 1 - ratio
calculateMaxConnectionsByRatio(points, opts) ==
    LET baseMax == IF points >= 0 THEN opts.maxSimultanousConnectionsPerIP
                   ELSE opts.maxSimultanousConnectionsNegativePerIP
    IN  IF points >= opts.ipSlowDownStartsAt THEN baseMax
        ELSE LET ratio == punishmentRatio(points, opts)
             IN  Max(1, FloorDiv(baseMax * ratio.num, ratio.den))

calculateMaxConnections(points, opts) ==
    LET baseMax == IF points >= 0 THEN opts.maxSimultanousConnectionsPerIP
                   ELSE opts.maxSimultanousConnectionsNegativePerIP
    IN  IF points >= opts.ipSlowDownStartsAt THEN baseMax
        ELSE LET ratio == punishmentRatio(points, opts)
             IN  Max(1, FloorDiv(baseMax * (ratio.den - ratio.num), ratio.den))

\* calculatePoints taking 300 for a 2xx code
calculatePointsUpTo300(statusCode, opts) ==
    IF statusCode >= 200 /\ statusCode <= 300 THEN opts.pointsFor20x
    ELSE IF statusCode >= 300 /\ statusCode < 400 THEN opts.pointsFor30x
    ELSE IF statusCode = 400 THEN opts.pointsFor400
    ELSE IF statusCode = 401 THEN opts.pointsFor401
    ELSE IF statusCode = 404 THEN opts.pointsFor404
    ELSE IF statusCode >= 400 /\ statusCode < 500 THEN opts.pointsFor40x
    ELSE IF statusCode >= 500 /\ statusCode < 600 THEN opts.pointsFor50x
    ELSE 0

\* calculatePoints testing the 4xx range before its specific codes
calculatePointsGenericFirst(statusCode, opts) ==
    IF statusCode >= 200 /\ statusCode < 300 THEN opts.pointsFor20x
    ELSE IF statusCode >= 300 /\ statusCode < 400 THEN opts.pointsFor30x
    ELSE IF statusCode >= 400 /\ statusCode < 500 THEN opts.pointsFor40x
    ELSE IF statusCode >= 500 /\ statusCode < 600 THEN opts.pointsFor50x
    ELSE 0

calculatePoints(statusCode, opts) ==
    IF statusCode >= 200 /\ statusCode < 300 THEN opts.pointsFor20x
    ELSE IF statusCode >= 300 /\ statusCode < 400 THEN opts.pointsFor30x
    ELSE IF statusCode = 400 THEN opts.pointsFor400
    ELSE IF statusCode = 401 THEN opts.pointsFor401
    ELSE IF statusCode = 404 THEN opts.pointsFor404
    ELSE IF statusCode >= 400 /\ statusCode < 500 THEN opts.pointsFor40x
    ELSE IF statusCode >= 500 /\ statusCode < 600 THEN opts.pointsFor50x
    ELSE 0

\* The penalties applied from the thresholds on, not above them
checkExcessiveUsageAtThreshold(d, opts) ==
    LET reqPer10Sec == calculate10SecReqPerSec(d)
        p1 == IF FracGE(reqPer10Sec, opts.excessiveReqPerS)
              THEN opts.pointsForExcessiveRequest ELSE 0
        reqPerMin == [num |-> d.reqInCurrentMin + d.reqInPrevMin, den |-> 60]
        p2 == IF FracGE(reqPerMin, opts.excessiveReqPerMin)
              THEN opts.pointsForExcessiveRequest ELSE 0
    IN  p1 + p2

checkExcessiveUsage(d, opts) ==
    LET reqPer10Sec == calculate10SecReqPerSec(d)
        p1 == IF FracGT(reqPer10Sec, opts.excessiveReqPerS)
              THEN opts.pointsForExcessiveRequest ELSE 0
        reqPerMin == [num |-> d.reqInCurrentMin + d.reqInPrevMin, den |-> 60]
        p2 == IF FracGT(reqPerMin, opts.excessiveReqPerMin)
              THEN opts.pointsForExcessiveRequest ELSE 0
    IN  p1 + p2

----------------------------------------------------------------------------
(* The reputation table *)

maxAttempts == 2

\* data.points >= -50000 && data.points <= 50000
isInPreferredRange(d) == d.points >= -50000 /\ d.points <= 50000

\* An address last seen exactly 5 minutes ago taken as recently active
isRecentlyActiveInclusive(d, nowMs) == (nowMs - d.lastSeenMs) <= 300000

\* (nowMs - data.lastSeenMs) < 300000
isRecentlyActive(d, nowMs) == (nowMs - d.lastSeenMs) < 300000

\* The loop without the clause that makes the last attempt return
RECURSIVE evictLoopUntilUnprotected(_, _, _, _, _, _)
evictLoopUntilUnprotected(attempts, slots, map, hp, nowMs, draws) ==
    IF attempts < maxAttempts
    THEN LET randomIndex == draws[attempts + 1]
             ip == slots[randomIndex]
             found == [index |-> randomIndex, draws |-> attempts + 1, fallback |-> FALSE]
         IN  IF ip = Undefined THEN found
             ELSE IF ip \notin DOMAIN map THEN found
             ELSE LET data == hp[map[ip]]
                  IN  IF \/ ~isInPreferredRange(data)
                         \/ ~isRecentlyActive(data, nowMs)
                      THEN found
                      ELSE evictLoopUntilUnprotected(attempts + 1, slots, map, hp, nowMs, draws)
    ELSE [index |-> draws[maxAttempts + 1], draws |-> maxAttempts + 1, fallback |-> TRUE]

\* The loop of findEvictableIndex from the given value of attempts.  draws[k] is
\* the value of the k-th evaluation of Math.floor(Math.random() * size).  The
\* result carries the index returned, the number of draws made, and whether the
\* return after the loop was the one taken.
RECURSIVE evictLoop(_, _, _, _, _, _)
evictLoop(attempts, slots, map, hp, nowMs, draws) ==
    IF attempts < maxAttempts
    THEN LET randomIndex == draws[attempts + 1]
             ip == slots[randomIndex]
             found == [index |-> randomIndex, draws |-> attempts + 1, fallback |-> FALSE]
         IN  IF ip = Undefined THEN found
             ELSE IF ip \notin DOMAIN map THEN found
             ELSE LET data == hp[map[ip]]
                  IN  IF \/ ~isInPreferredRange(data)
                         \/ ~isRecentlyActive(data, nowMs)
                         \/ attempts = maxAttempts - 1
                      THEN found
                      ELSE evictLoop(attempts + 1, slots, map, hp, nowMs, draws)
    ELSE [index |-> draws[maxAttempts + 1], draws |-> maxAttempts + 1, fallback |-> TRUE]

findEvictableIndex(slots, map, hp, nowMs, draws) ==
    evictLoop(0, slots, map, hp, nowMs, draws).index

\* The sequences of values Math.floor(Math.random() * size) can take in one call.
Draws(size) == [1..(maxAttempts + 1) -> 0..(size - 1)]

\* A reference to a new object: the least id not in use.
\* A new record stored over an object that is still in use
NewIdShared(hp) == CHOOSE i \in 1..(Cardinality(DOMAIN hp) + 1) : TRUE

NewId(hp) == CHOOSE i \in 1..(Cardinality(DOMAIN hp) + 1) : i \notin DOMAIN hp

\* A new record that does not remember its slot
newIpDataIndexZero(ip, evictIndex, nowMs) ==
    [ ip |-> ip,
      index |-> 0,
      lastSeenMs |-> nowMs,
      points |-> 0,
      connections |-> 0,
      reqInCurrentMin |-> 0,
      reqInPrevMin |-> 0,
      reqInCurrent10Sec |-> 0,
      reqInPrev10Sec |-> 0 ]

newIpData(ip, evictIndex, nowMs) ==
    [ ip |-> ip,
      index |-> evictIndex,
      lastSeenMs |-> nowMs,
      points |-> 0,
      connections |-> 0,
      reqInCurrentMin |-> 0,
      reqInPrevMin |-> 0,
      reqInCurrent10Sec |-> 0,
      reqInPrev10Sec |-> 0 ]

\* The record of the evicted address left in the map
MapDeleteSkipped(map, k) == map

\* Map.prototype.delete and Map.prototype.set
MapDelete(map, k) == [x \in DOMAIN map \ {k} |-> map[x]]
MapSet(map, k, v) == [x \in DOMAIN map \cup {k} |-> IF x = k THEN v ELSE map[x]]

\* addIpToMonitoring: the slot array, the map and the objects after the call, the
\* id of the new record, and the address removed (Undefined when none).
addIpToMonitoring(ip, slots, map, hp, nowMs, draws) ==
    LET evictIndex == findEvictableIndex(slots, map, hp, nowMs, draws)
        oldIp == slots[evictIndex]
        map1 == IF oldIp # Undefined THEN MapDelete(map, oldIp) ELSE map
        id == NewId(hp)
    IN  [ monitoredIps |-> [slots EXCEPT ![evictIndex] = ip],
          ipData |-> MapSet(map1, ip, id),
          heap |-> [i \in DOMAIN hp \cup {id} |->
                        IF i = id THEN newIpData(ip, evictIndex, nowMs) ELSE hp[i]],
          id |-> id,
          oldIp |-> oldIp ]

\* Record objects stay alive while the map or the closure of a pending request
\* refers to them; the others are unreachable and are dropped.
Reachable(hp, map, reqs) ==
    LET live == {map[a] : a \in DOMAIN map} \cup {reqs[i].entry : i \in DOMAIN reqs}
    IN  [i \in DOMAIN hp \cap live |-> hp[i]]

----------------------------------------------------------------------------
(* The admission pipeline *)

\* The global check taking the value 0 for a cap instead of "no cap"
GlobalRateExceededNoSwitch(gs, nowMs, opts) ==
    FracGE(calculateCurrentReqPerSec(gs, nowMs), opts.maxRequestRatePerSec)

\* The global check rejecting only above the cap
GlobalRateExceededAboveCap(gs, nowMs, opts) ==
    /\ opts.maxRequestRatePerSec > 0
    /\ FracGT(calculateCurrentReqPerSec(gs, nowMs), opts.maxRequestRatePerSec)

\* opts.maxRequestRatePerSec > 0 && globalReqPerSec >= opts.maxRequestRatePerSec
GlobalRateExceeded(gs, nowMs, opts) ==
    /\ opts.maxRequestRatePerSec > 0
    /\ FracGE(calculateCurrentReqPerSec(gs, nowMs), opts.maxRequestRatePerSec)

\* The negative-address check rejecting only above the cap
NegativeRateExceededAboveCap(gs, entry, opts) ==
    /\ opts.maxRequestNegativeIPperSec > 0
    /\ entry.points < 0
    /\ gs.negativeReqInCurrentSec > opts.maxRequestNegativeIPperSec

\* opts.maxRequestNegativeIPperSec > 0 && ipEntry.points < 0 &&
\* globalStats.negativeReqInCurrentSec >= opts.maxRequestNegativeIPperSec
NegativeRateExceeded(gs, entry, opts) ==
    /\ opts.maxRequestNegativeIPperSec > 0
    /\ entry.points < 0
    /\ gs.negativeReqInCurrentSec >= opts.maxRequestNegativeIPperSec

\* The per-address check rejecting only above the cap
IpRateExceededAboveCap(entry, opts) ==
    LET reqPer10Sec == calculate10SecReqPerSec(entry)
        maxReqPerSec == IF entry.points >= 0 THEN opts.maxReqPerSecPerIP
                        ELSE opts.maxReqNegativePerSecPerIP
    IN  FracGT(reqPer10Sec, maxReqPerSec)

\* reqPer10Sec >= maxReqPerSec
IpRateExceeded(entry, opts) ==
    LET reqPer10Sec == calculate10SecReqPerSec(entry)
        maxReqPerSec == IF entry.points >= 0 THEN opts.maxReqPerSecPerIP
                        ELSE opts.maxReqNegativePerSecPerIP
    IN  FracGE(reqPer10Sec, maxReqPerSec)

\* The connection check letting a request through at the cap
ConnectionLimitExceededAboveCap(entry, opts) ==
    LET maxConns == calculateMaxConnections(entry.points, opts)
    IN  entry.connections > maxConns

\* ipEntry.connections >= maxConns
ConnectionLimitExceeded(entry, opts) ==
    LET maxConns == calculateMaxConnections(entry.points, opts)
    IN  entry.connections >= maxConns

\* The limit checks of the middleware in their order: the reason of the first
\* one that fails, or "admit".
\* The checks with the connection check moved to the front
VerdictConnectionFirst(gs, entry, nowMs, opts) ==
    IF ConnectionLimitExceeded(entry, opts) THEN "Connection limit exceeded"
    ELSE IF GlobalRateExceeded(gs, nowMs, opts) THEN "Global rate limit exceeded"
    ELSE IF NegativeRateExceeded(gs, entry, opts) THEN "Global negative IP rate limit exceeded"
    ELSE IF IpRateExceeded(entry, opts) THEN "IP rate limit exceeded"
    ELSE "admit"

Verdict(gs, entry, nowMs, opts) ==
    IF GlobalRateExceeded(gs, nowMs, opts) THEN "Global rate limit exceeded"
    ELSE IF NegativeRateExceeded(gs, entry, opts) THEN "Global negative IP rate limit exceeded"
    ELSE IF IpRateExceeded(entry, opts) THEN "IP rate limit exceeded"
    ELSE IF ConnectionLimitExceeded(entry, opts) THEN "Connection limit exceeded"
    ELSE "admit"

\* createRateLimitResponse putting the reason into every response
createRateLimitResponseAnnotated(opts, reason) ==
    [ status |-> 429,
      body |-> [error |-> opts.rateLimitMessage, reason |-> reason] ]

\* createRateLimitResponse: the response sent
createRateLimitResponse(opts, reason) ==
    [ status |-> 429,
      body |-> IF opts.enableDebug
               THEN [error |-> opts.rateLimitMessage, reason |-> reason]
               ELSE [error |-> opts.rateLimitMessage] ]

\* createRateLimitResponse counting the rejected request as a request as well
countRejectionAsRequest(gs) ==
    [gs EXCEPT !.rateLimited429InCurrentMin = @ + 1,
               !.reqInCurrentSec = @ + 1,
               !.reqInCurrentMin = @ + 1]

\* The global counters after createRateLimitResponse: rateLimited429InCurrentMin++
countRejection(gs) == [gs EXCEPT !.rateLimited429InCurrentMin = @ + 1]

\* The global counters after the increments of an admission
countAdmission(gs, entry) ==
    [gs EXCEPT !.reqInCurrentSec = @ + 1,
               !.reqInCurrentMin = @ + 1,
               !.negativeReqInCurrentSec = IF entry.points < 0 THEN @ + 1 ELSE @]

\* An admission that takes no connection slot
countRequestWithoutConnection(entry) ==
    [entry EXCEPT !.reqInCurrentMin = @ + 1,
                  !.reqInCurrent10Sec = @ + 1]

\* The record after the increments of an admission
countRequest(entry) ==
    [entry EXCEPT !.reqInCurrentMin = @ + 1,
                  !.reqInCurrent10Sec = @ + 1,
                  !.connections = @ + 1]

\* The admissions of the clock second of the call at nowMs, with this call counted.
LogAdmission(log, nowMs, admitted, negative) ==
    LET sec == Ceil(nowMs, 1000)
        base == IF log.sec = sec THEN log ELSE [sec |-> sec, admitted |-> 0, negative |-> 0]
    IN  [ sec |-> sec,
          admitted |-> base.admitted + (IF admitted THEN 1 ELSE 0),
          negative |-> base.negative + (IF admitted /\ negative THEN 1 ELSE 0) ]

----------------------------------------------------------------------------------------------------------------------------------------
(* Construction *)

\* !userOptions.rateLimitMessage accepting an empty message
rateLimitMessageUndefined(userOptions) == "rateLimitMessage" \notin DOMAIN userOptions

\* !userOptions.rateLimitMessage: the field is missing or the empty string
rateLimitMessageMissing(userOptions) ==
    \/ "rateLimitMessage" \notin DOMAIN userOptions
    \/ userOptions.rateLimitMessage = ""

\* registerHappyServerExtension(): the registry after the call, and its result;
\* attempts counts the calls.
registerHappyServerExtension(hs) ==
    IF hs.extension = "object"
    THEN [ happyServer |-> [hs EXCEPT !.plastron = TRUE, !.attempts = @ + 1],
           result |-> TRUE ]
    ELSE [ happyServer |-> [hs EXCEPT !.attempts = @ + 1], result |-> FALSE ]

\* The registry before any instance exists; extension is what
\* typeof globalThis.happyServerExtension gives.
NoRegistration(extension) ==
    [ extension |-> extension, plastron |-> FALSE, attempts |-> 0, retry |-> FALSE,
      retryDueMs |-> 0 ]

\* createPlastron(userOptions) with globalThis.happyServerExtension as given,
\* and the calls the environment will make. When it throws, nothing is created.
Construct(userOptions, extension, budget) ==
    /\ now = T0
    /\ secLog = [sec |-> Ceil(now, 1000), admitted |-> 0, negative |-> 0]
    /\ seen = {}
    /\ pending = <<>>
    /\ ipData = <<>>
    /\ heap = <<>>
    /\ IF rateLimitMessageMissing(userOptions)
       THEN /\ options = <<>>
            /\ monitoredIps = <<>>
            /\ globalStats = <<>>
            /\ happyServer = NoRegistration(extension)
            /\ last = [ op |-> "createPlastron", userOptions |-> userOptions,
                        error |-> "rateLimitMessage is required in PlastronOptions" ]
            /\ steps = [k \in DOMAIN budget |-> 0]
       ELSE /\ options = Merge(defaultOptions, userOptions)
            /\ monitoredIps = [i \in 0..(options.ipMonitorSize - 1) |-> Undefined]
            /\ globalStats =
                   [ reqInCurrentSec |-> 0,
                     reqInPrevSec |-> 0,
                     prevSecStartMs |-> now,
                     currentSecStartMs |-> now,
                     negativeReqInCurrentSec |-> 0,
                     reqInCurrentMin |-> 0,
                     reqInPrevMin |-> 0,
                     rateLimited429InCurrentMin |-> 0,
                     rateLimited429InPrevMin |-> 0,
                     currentMinStartMs |-> now ]
            /\ LET registered == registerHappyServerExtension(NoRegistration(extension))
               IN  happyServer = IF registered.result
                                 THEN registered.happyServer
                                 ELSE [registered.happyServer EXCEPT !.retry = TRUE,
                                                                    !.retryDueMs = now + 3000]
            /\ last = [op |-> "createPlastron", userOptions |-> userOptions, error |-> Undefined]
            /\ steps = budget

----------------------------------------------------------------------------
(* Operations *)

\* One call of the middleware, up to and including the synchronous call of
\* processRequest when no slowdown applies.
Middleware(req, draws) ==
    /\ steps.req > 0
    /\ LET nowMs == now
           ip == getClientIp(req)
           gs1 == updateGlobalStats(globalStats, nowMs)
           tracked == ip \in DOMAIN ipData
           added == addIpToMonitoring(ip, monitoredIps, ipData, heap, nowMs, draws)
           slots1 == IF tracked THEN monitoredIps ELSE added.monitoredIps
           map1 == IF tracked THEN ipData ELSE added.ipData
           heap1 == IF tracked THEN heap ELSE added.heap
           evicted == IF tracked THEN Undefined ELSE added.oldIp
           id == map1[ip]
           ipEntry == [updateTimeWindows(heap1[id], nowMs) EXCEPT !.lastSeenMs = nowMs]
           verdict == Verdict(gs1, ipEntry, nowMs, options)
           admitted == verdict = "admit"
           negative == ipEntry.points < 0
           slowdownMs == calculateSlowdown(ipEntry.points, options)
           gs2 == IF admitted THEN countAdmission(gs1, ipEntry) ELSE countRejection(gs1)
           entry2 == IF admitted THEN countRequest(ipEntry) ELSE ipEntry
           pending1 == IF admitted
                       THEN Append(pending,
                                   [ entry |-> id,
                                     ip |-> ip,
                                     stage |-> IF FracGT(slowdownMs, 0) THEN "delayed"
                                               ELSE "dispatched",
                                     nextCalls |-> IF FracGT(slowdownMs, 0) THEN 0 ELSE 1,
                                     dueMs |-> IF FracGT(slowdownMs, 0)
                                               THEN nowMs + timerDelay(slowdownMs) ELSE 0 ])
                       ELSE pending
       IN  /\ monitoredIps' = slots1
           /\ ipData' = map1
           /\ heap' = Reachable([heap1 EXCEPT ![id] = entry2], map1, pending1)
           /\ globalStats' = gs2
           /\ pending' = pending1
           /\ last' = IF admitted
                       THEN [ op |-> "middleware", ip |-> ip, tracked |-> tracked,
                              evicted |-> evicted, entry |-> id,
                              admitted |-> TRUE, slowdownMs |-> slowdownMs ]
                       ELSE [ op |-> "middleware", ip |-> ip, tracked |-> tracked,
                              evicted |-> evicted, entry |-> id,
                              admitted |-> FALSE, reason |-> verdict,
                              response |-> createRateLimitResponse(options, verdict) ]
           /\ secLog' = LogAdmission(secLog, nowMs, admitted, negative)
           /\ seen' = seen \cup {ip}
    /\ steps' = [steps EXCEPT !.req = @ - 1]
    /\ UNCHANGED <<happyServer, options, now>>

\* processRequest run before its timer is due
DispatchEarly(i) ==
    /\ i \in DOMAIN pending
    /\ pending[i].stage = "delayed"
    /\ pending' = [pending EXCEPT ![i] = [@ EXCEPT !.stage = "dispatched", !.dueMs = 0,
                                                   !.nextCalls = @ + 1]]
    /\ last' = [op |-> "processRequest", ip |-> pending[i].ip, entry |-> pending[i].entry]
    /\ UNCHANGED <<happyServer, options, now, monitoredIps, ipData, heap, globalStats, secLog,
                   seen, steps>>

\* The timer set by setTimeout(processRequest, slowdownMs) fires: the send hook is
\* installed and next() is called.
Dispatch(i) ==
    /\ i \in DOMAIN pending
    /\ pending[i].stage = "delayed"
    /\ now >= pending[i].dueMs
    /\ pending' = [pending EXCEPT ![i] = [@ EXCEPT !.stage = "dispatched", !.dueMs = 0,
                                                   !.nextCalls = @ + 1]]
    /\ last' = [op |-> "processRequest", ip |-> pending[i].ip, entry |-> pending[i].entry]
    /\ UNCHANGED <<happyServer, options, now, monitoredIps, ipData, heap, globalStats, secLog, seen, steps>>

\* All elements of a sequence but the i-th
Remove(q, i) == [k \in 1..(Len(q) - 1) |-> IF k < i THEN q[k] ELSE q[k + 1]]

\* The send hook taking the request out of the 10-second window as well
CompleteUncounting(i, statusCode) ==
    /\ i \in DOMAIN pending
    /\ pending[i].stage = "dispatched"
    /\ LET id == pending[i].entry
           ipEntry == heap[id]
           pts == calculatePoints(statusCode, options)
           excessivePenalty == checkExcessiveUsage(ipEntry, options)
           entry2 == [ipEntry EXCEPT !.points = @ + pts + excessivePenalty,
                                     !.connections = Max(0, @ - 1),
                                     !.reqInCurrent10Sec = Max(0, @ - 1)]
           pending1 == Remove(pending, i)
       IN  /\ pending' = pending1
           /\ heap' = Reachable([heap EXCEPT ![id] = entry2], ipData, pending1)
           /\ last' = [ op |-> "send", ip |-> pending[i].ip, entry |-> id,
                        statusCode |-> statusCode ]
    /\ UNCHANGED <<happyServer, options, now, monitoredIps, ipData, globalStats, secLog, seen, steps>>

\* The send hook in place from admission on, before the timer has fired
CompleteUndispatched(i, statusCode) ==
    /\ i \in DOMAIN pending
    /\ LET id == pending[i].entry
           ipEntry == heap[id]
           pts == calculatePoints(statusCode, options)
           excessivePenalty == checkExcessiveUsage(ipEntry, options)
           entry2 == [ipEntry EXCEPT !.points = @ + pts + excessivePenalty,
                                     !.connections = Max(0, @ - 1)]
           pending1 == Remove(pending, i)
       IN  /\ pending' = pending1
           /\ heap' = Reachable([heap EXCEPT ![id] = entry2], ipData, pending1)
           /\ last' = [ op |-> "send", ip |-> pending[i].ip, entry |-> id,
                        statusCode |-> statusCode ]
    /\ UNCHANGED <<happyServer, options, now, monitoredIps, ipData, globalStats, secLog, seen, steps>>

\* The handler of a dispatched request calls res.send with statusCode set.
Complete(i, statusCode) ==
    /\ i \in DOMAIN pending
    /\ pending[i].stage = "dispatched"
    /\ LET id == pending[i].entry
           ipEntry == heap[id]
           pts == calculatePoints(statusCode, options)
           excessivePenalty == checkExcessiveUsage(ipEntry, options)
           entry2 == [ipEntry EXCEPT !.points = @ + pts + excessivePenalty,
                                     !.connections = Max(0, @ - 1)]
           pending1 == Remove(pending, i)
       IN  /\ pending' = pending1
           /\ heap' = Reachable([heap EXCEPT ![id] = entry2], ipData, pending1)
           /\ last' = [ op |-> "send", ip |-> pending[i].ip, entry |-> id,
                        statusCode |-> statusCode ]
    /\ UNCHANGED <<happyServer, options, now, monitoredIps, ipData, globalStats, secLog, seen, steps>>

\* The address of a request object read from its ip field alone
AddressOfIpField(ipOrReq) ==
    IF ipOrReq.type = "string" THEN ipOrReq.value ELSE ipOrReq.value.ip

\* typeof ipOrReq == 'string' ? ipOrReq : getClientIp(ipOrReq)
AddressOf(ipOrReq) ==
    IF ipOrReq.type = "string" THEN ipOrReq.value ELSE getClientIp(ipOrReq.value)

\* addPointsToIp starting to track an address it does not find
addPointsToIpCreating(ipOrReq, pts) ==
    /\ steps.add > 0
    /\ LET ip == AddressOf(ipOrReq)
           found == ip \in DOMAIN ipData
           added == addIpToMonitoring(ip, monitoredIps, ipData, heap, now,
                                      [k \in 1..(maxAttempts + 1) |-> 0])
           map1 == IF found THEN ipData ELSE added.ipData
           heap1 == IF found THEN heap ELSE added.heap
       IN  /\ monitoredIps' = IF found THEN monitoredIps ELSE added.monitoredIps
           /\ ipData' = map1
           /\ heap' = Reachable([heap1 EXCEPT ![map1[ip]] = [@ EXCEPT !.points = @ + pts]],
                                map1, pending)
           /\ last' = [ op |-> "addPointsToIp", arg |-> ipOrReq, ip |-> ip, pts |-> pts,
                        result |-> TRUE ]
    /\ steps' = [steps EXCEPT !.add = @ - 1]
    /\ UNCHANGED <<happyServer, options, now, globalStats, pending, secLog, seen>>

addPointsToIp(ipOrReq, pts) ==
    /\ steps.add > 0
    /\ LET ip == AddressOf(ipOrReq)
           found == ip \in DOMAIN ipData
       IN  /\ heap' = IF found
                      THEN [heap EXCEPT ![ipData[ip]] = [@ EXCEPT !.points = @ + pts]]
                      ELSE heap
           /\ last' = [ op |-> "addPointsToIp", arg |-> ipOrReq, ip |-> ip, pts |-> pts,
                        result |-> found ]
    /\ steps' = [steps EXCEPT !.add = @ - 1]
    /\ UNCHANGED <<happyServer, options, now, monitoredIps, ipData, globalStats, pending, secLog, seen>>

\* Time passes between two calls.
Tick(d) ==
    /\ steps.ticks > 0
    /\ now' = now + d
    /\ steps' = [steps EXCEPT !.ticks = @ - 1]
    /\ last' = [op |-> "tick"]
    /\ UNCHANGED <<happyServer, options, monitoredIps, ipData, heap, globalStats, pending, secLog, seen>>

\* getStats()
getStats == [totalMonitoredIps |-> Cardinality(DOMAIN ipData), globalStats |-> globalStats]

\* getIpData(ip): the record, or Undefined
getIpData(ip) == IF ip \in DOMAIN ipData THEN heap[ipData[ip]] ELSE Undefined

----------------------------------------------------------------------------
(* The environment *)

\* The middleware called with one of the requests reqs; the random draws matter
\* only when the address is not tracked.
Request(reqs) ==
    /\ steps.req > 0
    /\ \E req \in reqs :
         \E draws \in IF getClientIp(req) \in DOMAIN ipData
                      THEN {[k \in 1..(maxAttempts + 1) |-> 0]}
                      ELSE Draws(options.ipMonitorSize) :
           Middleware(req, draws)

TimerFires == \E i \in DOMAIN pending : Dispatch(i)

Send == \E i \in DOMAIN pending : \E statusCode \in StatusCodes : Complete(i, statusCode)

\* The arguments addPointsToIp is called with: an address or a request object.
IpOrReqs(reqs) ==
    {[type |-> "string", value |-> getClientIp(r)] : r \in reqs}
        \cup {[type |-> "object", value |-> r] : r \in reqs}

AddPoints(reqs, deltas) ==
    \E ipOrReq \in IpOrReqs(reqs) : \E pts \in deltas : addPointsToIp(ipOrReq, pts)

TimePasses(ds) == \E d \in ds : Tick(d)

\* Three addresses and a table of two slots, within one clock second.
Init ==
    \E u \in {baseUserOptions, limitedUserOptions} :
      Construct(u, Undefined, [req |-> MaxReq, ticks |-> 0, add |-> MaxAdd])

Next ==
    \/ Request(Requests)
    \/ Send
    \/ AddPoints(Requests, {10000})

Spec == Init /\ [][Next]_vars

\* A single address, with time passing.
OneRequest == {[ip |-> "a", remoteAddress |-> "a"]}

InitOne ==
    \E u \in {baseUserOptions, harshUserOptions, shortUserOptions} :
      Construct(With(u, "ipMonitorSize", 1), Undefined,
                [req |-> MaxReqOne, ticks |-> MaxTicksOne, add |-> MaxAddOne])

NextOne ==
    \/ Request(OneRequest)
    \/ TimerFires
    \/ Send
    \/ AddPoints(OneRequest, Deltas)
    \/ TimePasses(TimeSteps)

SpecOne == InitOne /\ [][NextOne]_vars

\* The global limits, two addresses, over several clock seconds.
TwoRequests == {[ip |-> "a", remoteAddress |-> "a"], [ip |-> Undefined, remoteAddress |-> "b"]}

InitRate ==
    \E u \in rateUserOptions \cup {shutUserOptions, debugUserOptions} :
      Construct(u, Undefined, [req |-> MaxReqRate, ticks |-> MaxTicksRate, add |-> 0])

NextRate ==
    \/ Request(TwoRequests)
    \/ TimerFires
    \/ Send
    \/ TimePasses(TimeSteps)

SpecRate == InitRate /\ [][NextRate]_vars

\* A retry that sets its timer again when it finds no registry
RetryRearmed ==
    /\ happyServer.retry
    /\ now >= happyServer.retryDueMs
    /\ LET registered == registerHappyServerExtension(happyServer)
       IN  /\ happyServer' = [registered.happyServer EXCEPT !.retry = ~registered.result,
                                                            !.retryDueMs = now + 3000]
           /\ last' = [op |-> "registerHappyServerExtension", result |-> registered.result]
    /\ UNCHANGED <<options, now, monitoredIps, ipData, heap, globalStats, pending,
                   secLog, seen, steps>>

\* The timer of the retry fires: registerHappyServerExtension() is called again.
RetryFires ==
    /\ happyServer.retry
    /\ now >= happyServer.retryDueMs
    /\ LET registered == registerHappyServerExtension(happyServer)
       IN  /\ happyServer' = [registered.happyServer EXCEPT !.retry = FALSE]
           /\ last' = [op |-> "registerHappyServerExtension", result |-> registered.result]
    /\ UNCHANGED <<options, now, monitoredIps, ipData, heap, globalStats, pending,
                   secLog, seen, steps>>

\* The host sets globalThis.happyServerExtension to an object.
ExtensionInstalled ==
    /\ happyServer.extension = Undefined
    /\ happyServer' = [happyServer EXCEPT !.extension = "object"]
    /\ last' = [op |-> "happyServerExtension"]
    /\ UNCHANGED <<options, now, monitoredIps, ipData, heap, globalStats, pending,
                   secLog, seen, steps>>

\* userOptions with a message, without one, and with an empty one
createUserOptions ==
    { With(baseUserOptions, "ipMonitorSize", 1),
      [ipMonitorSize |-> 1],
      Overlay(baseUserOptions, [ipMonitorSize |-> 1, rateLimitMessage |-> ""]) }

\* Construction with the registry present or absent, and one address.
InitCreate ==
    \E u \in createUserOptions : \E extension \in {Undefined, "object"} :
      Construct(u, extension, [req |-> MaxReqCreate, ticks |-> MaxTicksCreate, add |-> 0])

NextCreate ==
    \/ Request(OneRequest)
    \/ TimerFires
    \/ Send
    \/ TimePasses({3000, 60000})
    \/ RetryFires
    \/ ExtensionInstalled

SpecCreate == InitCreate /\ [][NextCreate]_vars

\* One address sending up to MaxReqBurst requests, within one 10-second window
\* or across two.
InitBurst ==
    \E u \in {burstUserOptions, tightUserOptions} :
      Construct(u, Undefined, [req |-> MaxReqBurst, ticks |-> MaxTicksBurst, add |-> 0])

NextBurst ==
    \/ Request(OneRequest)
    \/ Send
    \/ TimePasses({5000, 10000})

SpecBurst == InitBurst /\ [][NextBurst]_vars

\* Two addresses in a table of two slots, each allowed one open connection.
InitEvict ==
    Construct(evictUserOptions, Undefined, [req |-> MaxReqEvict, ticks |-> 0, add |-> 0])

NextEvict ==
    \/ Request(TwoRequests)
    \/ Send

SpecEvict == InitEvict /\ [][NextEvict]_vars

\* The timers that have not fired
Timers == {i \in DOMAIN pending : pending[i].stage = "delayed"}

\* With nothing else to run, the clock reaches the time the next timer is due.
TimeElapses ==
    /\ Timers # {}
    /\ \A i \in Timers : now < pending[i].dueMs
    /\ \E i \in Timers :
         /\ \A j \in Timers : pending[i].dueMs <= pending[j].dueMs
         /\ now' = pending[i].dueMs
    /\ last' = [op |-> "tick"]
    /\ UNCHANGED <<happyServer, options, monitoredIps, ipData, heap, globalStats, pending,
                   secLog, seen, steps>>

\* A single address whose requests are delayed; time passes as the timers need
\* it, and a timer that is due fires.
InitLive ==
    Construct(With(baseUserOptions, "ipMonitorSize", 1), Undefined,
              [req |-> MaxReqLive, ticks |-> 0, add |-> MaxAddLive])

NextLive ==
    \/ Request(OneRequest)
    \/ TimerFires
    \/ Send
    \/ AddPoints(OneRequest, Deltas)
    \/ TimeElapses

SpecLive == InitLive /\ [][NextLive]_vars /\ WF_vars(TimerFires) /\ WF_vars(TimeElapses)

\* The pure functions called once on a fresh instance, under each of
\* fnUserOptions; the punishment functions at points and at points + 1.
EvalPoints ==
    \E statusCode \in 0..MaxStatus :
      /\ last.op = "createPlastron"
      /\ last' = [ op |-> "calculatePoints", statusCode |-> statusCode,
                   result |-> calculatePoints(statusCode, options) ]
      /\ UNCHANGED <<happyServer, options, now, monitoredIps, ipData, heap, globalStats, pending,
                     secLog, seen, steps>>

EvalPunishment ==
    \E points \in (0 - MaxDepth)..MaxHeight :
      /\ last.op = "createPlastron"
      /\ last' = [ op |-> "punishment", points |-> points,
                   slowdownMs |-> calculateSlowdown(points, options),
                   maxConns |-> calculateMaxConnections(points, options),
                   above |-> [ slowdownMs |-> calculateSlowdown(points + 1, options),
                               maxConns |-> calculateMaxConnections(points + 1, options) ] ]
      /\ UNCHANGED <<happyServer, options, now, monitoredIps, ipData, heap, globalStats, pending,
                     secLog, seen, steps>>

\* Scores and ages (nowMs - lastSeenMs) of the records of the tables
\* findEvictableIndex is evaluated on, and the address held by each slot.
PointsSamples == {-50001, -50000, 0, 50000, 50001}
AgeSamples == {299999, 300000}
SlotAddress == <<"a", "b", "*error*">>

\* The table whose slots in occupied hold a record each, with the given points
\* and age; the record of slot i is object i + 1.
Table(occupied, points, ages, nowMs) ==
    [ monitoredIps |-> [i \in 0..(MaxSlots - 1) |->
                           IF i \in occupied THEN SlotAddress[i + 1] ELSE Undefined],
      ipData |-> [a \in {SlotAddress[i + 1] : i \in occupied} |->
                     (CHOOSE i \in occupied : SlotAddress[i + 1] = a) + 1],
      heap |-> [id \in {i + 1 : i \in occupied} |->
                   [newIpData(SlotAddress[id], id - 1, nowMs - ages[id - 1])
                       EXCEPT !.points = points[id - 1]]] ]

\* findEvictableIndex on a table of MaxSlots slots, for each outcome of its
\* random draws.
EvalEviction ==
    /\ last.op = "createPlastron"
    /\ \E occupied \in SUBSET (0..(MaxSlots - 1)) :
      \E points \in [0..(MaxSlots - 1) -> PointsSamples] :
        \E ages \in [0..(MaxSlots - 1) -> AgeSamples] :
          \E draws \in Draws(MaxSlots) :
            /\ \A i \in (0..(MaxSlots - 1)) \ occupied : points[i] = 0 /\ ages[i] = 300000
            /\ LET table == Table(occupied, points, ages, now)
               IN  last' = [ op |-> "findEvictableIndex", table |-> table,
                             first |-> draws[1], second |-> draws[2],
                             result |-> evictLoop(0, table.monitoredIps, table.ipData,
                                                  table.heap, now, draws) ]
            /\ UNCHANGED <<happyServer, options, now, monitoredIps, ipData, heap, globalStats,
                           pending, secLog, seen, steps>>

\* Times of the last request of an address, at and next to the start of a
\* 10-second and of a minute window, and times elapsed since.
LastSeenSamples == {T0 - 1, T0, T0 + 1, T0 + 19999, T0 + 20000, T0 + 20001}
GapSamples == {0, 1, 9999, 10000, 10001, 20000, 59999, 60000, 60001, 120000}

\* updateTimeWindows on a record with requests in all four of its windows
EvalWindows ==
    \E lastSeenMs \in LastSeenSamples :
      \E gap \in GapSamples :
        /\ last.op = "createPlastron"
        /\ LET d == [newIpData("a", 0, lastSeenMs) EXCEPT !.reqInCurrent10Sec = 1,
                                                          !.reqInPrev10Sec = 2,
                                                          !.reqInCurrentMin = 3,
                                                          !.reqInPrevMin = 4]
           IN  last' = [ op |-> "updateTimeWindows", ipData |-> d,
                         nowMs |-> lastSeenMs + gap,
                         result |-> updateTimeWindows(d, lastSeenMs + gap) ]
        /\ UNCHANGED <<happyServer, options, now, monitoredIps, ipData, heap, globalStats,
                       pending, secLog, seen, steps>>

\* Requests of an address in its current 10-second window and in its current
\* minute, at and next to the thresholds of excessive use.
Current10SecSamples == {5, 6}
CurrentMinSamples == {6, 7, 195, 714, 715, 11995}

\* checkExcessiveUsage on a record with 5 requests in its previous 10-second
\* window and 6 in its previous minute
EvalExcessive ==
    /\ last.op = "createPlastron"
    /\ \E current10Sec \in Current10SecSamples :
         \E currentMin \in CurrentMinSamples :
           LET d == [newIpData("a", 0, now) EXCEPT !.reqInCurrent10Sec = current10Sec,
                                                   !.reqInPrev10Sec = 5,
                                                   !.reqInCurrentMin = currentMin,
                                                   !.reqInPrevMin = 6]
           IN  last' = [ op |-> "checkExcessiveUsage", ipData |-> d,
                         result |-> checkExcessiveUsage(d, options) ]
    /\ UNCHANGED <<happyServer, options, now, monitoredIps, ipData, heap, globalStats,
                   pending, secLog, seen, steps>>

InitFn ==
    \E u \in fnUserOptions : Construct(u, Undefined, [req |-> 0, ticks |-> 0, add |-> 0])

NextFn ==
    \/ EvalPoints
    \/ EvalPunishment
    \/ EvalEviction
    \/ EvalWindows
    \/ EvalExcessive

SpecFn == InitFn /\ [][NextFn]_vars

----------------------------------------------------------------------------
(* Claims *)

\* The address an argument of addPointsToIp stands for: the string itself, or
\* for a request object the address the middleware reads from it.
getClientIpOf(arg) == IF arg.type = "string" THEN arg.value ELSE getClientIp(arg.value)

\* The latest call was a call of the middleware that admitted the request.
Admitted == last.op = "middleware" /\ last.admitted

\* The latest call was a call of the middleware that rejected the request.
Rejected == last.op = "middleware" /\ ~last.admitted

\* C1: whatever requests and completions a single address produces, the
\* connections of its record are never negative, and right after an admission
\* they are at most the cap calculateMaxConnections gives for the record's points
\* at that admission.
C1_ConnectionsWithinCap ==
    /\ \A id \in DOMAIN heap : heap[id].connections >= 0
    /\ Admitted =>
           heap[last.entry].connections
               <= calculateMaxConnections(heap[last.entry].points, options)

\* C1 witness: an admission that fills the cap of a positive address, which
\* allows more than one connection.
C1_Witness ==
    /\ Admitted
    /\ heap[last.entry].connections > 1
    /\ heap[last.entry].connections
           = calculateMaxConnections(heap[last.entry].points, options)

\* C2: the number of tracked records, reported as getStats().totalMonitoredIps,
\* never exceeds ipMonitorSize (ipMonitorSize >= 1).
C2_OccupancyWithinCapacity ==
    options.ipMonitorSize >= 1 => getStats.totalMonitoredIps <= options.ipMonitorSize

\* C2 witness: more distinct addresses have been seen than the table holds, and
\* the table is full.
C2_Witness ==
    /\ Cardinality(seen) > options.ipMonitorSize
    /\ getStats.totalMonitoredIps = options.ipMonitorSize

\* The slots of the array that hold address a
SlotsOf(a) == {i \in DOMAIN monitoredIps : monitoredIps[i] = a}

\* C3: the lookup map and the slot array correspond one to one: an address has
\* a record in ipData exactly if it is in exactly one slot of monitoredIps, and
\* the index field of that record is the index of that slot.
C3_MapMatchesSlots ==
    \A a \in Addresses :
        /\ a \in DOMAIN ipData <=> Cardinality(SlotsOf(a)) = 1
        /\ a \in DOMAIN ipData => SlotsOf(a) = {heap[ipData[a]].index}

\* C3 witness: an address has been evicted, another one is tracked in the
\* second slot.
C3_Witness ==
    /\ \E a \in seen : a \notin DOMAIN ipData
    /\ \E a \in DOMAIN ipData : heap[ipData[a]].index = 1

\* Every request so far came from an address of its own.
OneRequestEach == MaxReq - steps.req = Cardinality(seen)

\* C4: a record is evicted only when the table is at capacity: while a slot is
\* empty, inserting a new address removes no tracked address; so after k
\* distinct addresses have each sent one request, min(k, ipMonitorSize)
\* addresses are tracked.
C4_EvictionOnlyAtCapacity ==
    /\ [][ (\E i \in DOMAIN monitoredIps : monitoredIps[i] = Undefined)
               => DOMAIN ipData \subseteq DOMAIN ipData' ]_vars
    /\ [](OneRequestEach
              => Cardinality(DOMAIN ipData) = Min(Cardinality(seen), options.ipMonitorSize))

\* The four per-address caps are positive.
PositiveCaps ==
    /\ options.maxReqPerSecPerIP > 0
    /\ options.maxReqNegativePerSecPerIP > 0
    /\ options.maxSimultanousConnectionsPerIP > 0
    /\ options.maxSimultanousConnectionsNegativePerIP > 0

\* C5: with positive per-address caps, the first request of an address that is
\* not tracked is admitted unless the global rate check (which exists only when
\* maxRequestRatePerSec > 0) rejects it, whether or not the table is full and
\* whichever record is evicted.
C5_FirstRequestAdmitted ==
    (last.op = "middleware" /\ ~last.tracked /\ PositiveCaps) =>
        \/ last.admitted
        \/ last.reason = "Global rate limit exceeded" /\ options.maxRequestRatePerSec > 0

\* C5 witness: the request of an untracked address is admitted while the table
\* is full, and a tracked address is evicted for it.
C5_Witness ==
    /\ Admitted
    /\ ~last.tracked
    /\ last.evicted # Undefined
    /\ Cardinality(DOMAIN ipData) = options.ipMonitorSize

\* The step is a call of addPointsToIp.
AddPointsStep == steps'.add = steps.add - 1 /\ last'.op = "addPointsToIp"

\* C6: addPointsToIp on an address that has no record returns false, creates no
\* record, and leaves the tracked addresses, the slot array and every record
\* as they are.
C6_AddPointsUnknownAddress ==
    [][ (AddPointsStep /\ getClientIpOf(last'.arg) \notin DOMAIN ipData) =>
            /\ last'.result = FALSE
            /\ ipData' = ipData
            /\ monitoredIps' = monitoredIps
            /\ heap' = heap
            /\ getStats' = getStats ]_vars

\* C6 witness: addPointsToIp has returned false for an address that was tracked
\* and has been evicted, while another address is tracked.
C6_Witness ==
    /\ last.op = "addPointsToIp"
    /\ ~last.result
    /\ last.ip \in seen
    /\ DOMAIN ipData # {}

\* C7: addPointsToIp on a tracked address returns true and adds pts to the
\* points of its record; the rest of that record, the other records, the
\* tracked addresses, the slot array and the global counters stay as they are.
\* A request object stands for the address the middleware tracks it under.
C7_AddPointsTrackedAddress ==
    [][ (AddPointsStep /\ getClientIpOf(last'.arg) \in DOMAIN ipData) =>
            LET id == ipData[getClientIpOf(last'.arg)]
            IN  /\ last'.result = TRUE
                /\ heap' = [heap EXCEPT ![id] = [@ EXCEPT !.points = @ + last'.pts]]
                /\ ipData' = ipData
                /\ monitoredIps' = monitoredIps
                /\ globalStats' = globalStats
                /\ pending' = pending ]_vars

\* C7 witness: an address admitted once at 0 points and given 10000 through a
\* request object without an ip field has 10000 points.
C7_Witness ==
    /\ last.op = "addPointsToIp"
    /\ last.result
    /\ last.arg.type = "object"
    /\ last.arg.value.ip = Undefined
    /\ last.pts = 10000
    /\ heap[ipData[last.ip]].points = 10000

\* C8: with maxRequestRatePerSec = C > 0 at most C requests are admitted in one
\* clock second (one value of ceil(now/1000)); a rejected request is answered
\* with status 429 and the configured message; with C = 1 the first request
\* is admitted.
C8_GlobalRateCap ==
    /\ options.maxRequestRatePerSec > 0 => secLog.admitted <= options.maxRequestRatePerSec
    /\ Rejected => /\ last.response.status = 429
                   /\ last.response.body.error = options.rateLimitMessage
    /\ (options.maxRequestRatePerSec = 1 /\ last.op = "middleware"
            /\ steps.req = MaxReqRate - 1) => last.admitted

\* C8 witness: with C = 2, in a second after the first one, two requests have
\* been admitted and the next one of that second is rejected.
C8_Witness ==
    /\ options.maxRequestRatePerSec = 2
    /\ secLog.sec > Ceil(T0, 1000)
    /\ secLog.admitted = 2
    /\ Rejected
    /\ last.response.status = 429

\* C9: with maxRequestNegativeIPperSec = C > 0 at most C requests of addresses
\* whose points are negative at admission are admitted in one clock second.
C9_NegativeRateCap ==
    options.maxRequestNegativeIPperSec > 0
        => secLog.negative <= options.maxRequestNegativeIPperSec

\* The step is the completion of an admitted request.
SendStep == last'.op = "send" /\ Len(pending') = Len(pending) - 1

\* C10: the completion of an admitted request with status code s changes the
\* points of its record by calculatePoints(s) + checkExcessiveUsage(record),
\* where a 404 at 0 points and no penalty gives pointsFor404; the points of a
\* record change in no step other than a completion or addPointsToIp, so a
\* rejected request is never scored.
C10_ScoredOncePerCompletion ==
    [][ /\ (SendStep /\ last'.entry \in DOMAIN heap') =>
              LET id == last'.entry
                  s == last'.statusCode
              IN  /\ heap'[id].points = heap[id].points + calculatePoints(s, options)
                                          + checkExcessiveUsage(heap[id], options)
                  /\ (heap[id].points = 0 /\ s = 404
                          /\ checkExcessiveUsage(heap[id], options) = 0)
                        => heap'[id].points = options.pointsFor404
                  /\ \A j \in (DOMAIN heap \cap DOMAIN heap') \ {id} :
                        heap'[j].points = heap[j].points
        /\ (~SendStep /\ ~AddPointsStep) =>
              \A j \in DOMAIN heap \cap DOMAIN heap' : heap'[j].points = heap[j].points
      ]_vars

\* C10 witness: the address was at 0 points, its request has completed with
\* status 404, and it has -100 points.
C10_Witness ==
    /\ last.op = "send"
    /\ last.statusCode = 404
    /\ options.pointsFor404 = -100
    /\ last.entry \in DOMAIN heap
    /\ heap[last.entry].points = -100

\* C11: calculatePoints gives pointsFor20x for 200-299, pointsFor30x for
\* 300-399, pointsFor400, pointsFor401 and pointsFor404 for 400, 401 and 404,
\* pointsFor40x for every other code of 400-499, pointsFor50x for 500-599 and
\* 0 for every other code.
C11_StatusClassification ==
    last.op = "calculatePoints" =>
        LET s == last.statusCode
            specific == {400, 401, 404}
        IN  /\ s \in 200..299 => last.result = options.pointsFor20x
            /\ s \in 300..399 => last.result = options.pointsFor30x
            /\ s = 400 => last.result = options.pointsFor400
            /\ s = 401 => last.result = options.pointsFor401
            /\ s = 404 => last.result = options.pointsFor404
            /\ s \in (400..499) \ specific => last.result = options.pointsFor40x
            /\ s \in 500..599 => last.result = options.pointsFor50x
            /\ s \notin 200..599 => last.result = 0

\* C11 witness: 404 has been classified, under a configuration in which the
\* points for 404 differ from those of the other 4xx codes.
C11_Witness ==
    /\ last.op = "calculatePoints"
    /\ last.statusCode = 404
    /\ last.result = options.pointsFor404
    /\ options.pointsFor404 # options.pointsFor40x

\* calculateSlowdown does not grow and calculateMaxConnections does not shrink
\* from the points evaluated to the points one above.
MonotonicPunishment ==
    /\ FracLEFrac(last.above.slowdownMs, last.slowdownMs)
    /\ last.above.maxConns >= last.maxConns

\* C13 as stated: for every configuration calculateSlowdown is non-increasing
\* and calculateMaxConnections is non-decreasing as points increase.
C13_MonotonicAnyConfiguration == last.op = "punishment" => MonotonicPunishment

\* The maximum punishment is not above the start of the curve, and the caps
\* satisfy 1 <= cap for negative addresses <= cap for positive addresses.
OrderedCaps ==
    /\ options.ipSlowDownMaxPunishmentAt <= options.ipSlowDownStartsAt
    /\ 1 <= options.maxSimultanousConnectionsNegativePerIP
    /\ options.maxSimultanousConnectionsNegativePerIP <= options.maxSimultanousConnectionsPerIP

\* C13 amended: for a configuration with ipSlowDownMaxPunishmentAt <=
\* ipSlowDownStartsAt and 1 <= maxSimultanousConnectionsNegativePerIP <=
\* maxSimultanousConnectionsPerIP, calculateSlowdown is non-increasing and
\* calculateMaxConnections is non-decreasing as points increase; calculateSlowdown
\* is non-increasing for every configuration.
C13_MonotonicOrderedCaps ==
    last.op = "punishment" =>
        /\ FracLEFrac(last.above.slowdownMs, last.slowdownMs)
        /\ OrderedCaps => MonotonicPunishment

\* C13 witness: inside the curve of a configuration with ordered caps, one
\* point more gives a strictly shorter delay and a strictly larger cap.
C13_Witness ==
    /\ last.op = "punishment"
    /\ OrderedCaps
    /\ options.ipSlowDownMaxPunishmentAt < last.points
    /\ last.points < options.ipSlowDownStartsAt
    /\ ~FracLEFrac(last.slowdownMs, last.above.slowdownMs)
    /\ last.above.maxConns > last.maxConns

\* C12: a request admitted from an address whose points are at or below
\* ipSlowDownMaxPunishmentAt is delayed by exactly ipSlowDownMaxS, and the
\* address is held to a connection cap of exactly 1: the admitted request is
\* its only open connection.
C12_MaximumPunishment ==
    (last.op = "middleware"
         /\ heap[last.entry].points <= options.ipSlowDownMaxPunishmentAt) =>
        /\ calculateMaxConnections(heap[last.entry].points, options) = 1
        /\ last.admitted =>
              /\ heap[last.entry].connections = 1
              /\ last.slowdownMs.num = options.ipSlowDownMaxS * last.slowdownMs.den

\* C20: the slowdown delay of an admitted request never exceeds ipSlowDownMaxS.
C20_SlowdownWithinMaximum ==
    Admitted => FracLE(last.slowdownMs, options.ipSlowDownMaxS)

\* The step is a call of the middleware.
MiddlewareStep == steps'.req = steps.req - 1 /\ last'.op = "middleware"

\* Nothing but the window counters of the record could reject a request: the
\* global limits are off, the per-address caps are positive and the address has
\* no open connection.
WindowsDecide(id) ==
    /\ options.maxRequestRatePerSec = 0
    /\ options.maxRequestNegativeIPperSec = 0
    /\ PositiveCaps
    /\ heap[id].connections = 0

\* C14 as stated: when exactly one minute has elapsed since the last update of
\* the record, reqInPrevMin takes the value reqInCurrentMin had; when more than
\* one minute has elapsed, reqInPrevMin becomes 0; the request after the gap is
\* admitted (where only the window counters decide).
C14_CarryByElapsedTime ==
    [][ (MiddlewareStep /\ last'.tracked) =>
            LET id == last'.entry
                gap == now - heap[id].lastSeenMs
            IN  /\ gap = 60000 => heap'[id].reqInPrevMin = heap[id].reqInCurrentMin
                /\ gap > 60000 => heap'[id].reqInPrevMin = 0
                /\ (gap >= 60000 /\ WindowsDecide(id)) => last'.admitted ]_vars

\* C14 amended: when the update falls in the clock minute after the one of the
\* last update (as it does when exactly one minute has elapsed), reqInPrevMin
\* takes the value reqInCurrentMin had; when it falls two or more clock minutes
\* later (as it does when two minutes or more have elapsed), reqInPrevMin
\* becomes 0; within one clock minute it is kept. After a gap of a minute or
\* more both 10-second counts are 0 before the request is counted, and the
\* request is rejected only by a global check, by the connection cap, or by a
\* per-address rate cap that is not positive.
C14_CarryByClockMinute ==
    [][ (MiddlewareStep /\ last'.tracked) =>
            LET id == last'.entry
                gap == now - heap[id].lastSeenMs
                lastMin == Ceil(heap[id].lastSeenMs, 60000)
                currentMin == Ceil(now, 60000)
                counted == IF last'.admitted THEN 1 ELSE 0
            IN  /\ currentMin = lastMin => heap'[id].reqInPrevMin = heap[id].reqInPrevMin
                /\ currentMin = lastMin + 1
                       => heap'[id].reqInPrevMin = heap[id].reqInCurrentMin
                /\ currentMin > lastMin + 1 => heap'[id].reqInPrevMin = 0
                /\ gap = 60000 => heap'[id].reqInPrevMin = heap[id].reqInCurrentMin
                /\ gap >= 120000 => heap'[id].reqInPrevMin = 0
                /\ gap >= 60000 =>
                       /\ heap'[id].reqInCurrentMin = counted
                       /\ heap'[id].reqInCurrent10Sec = counted
                       /\ heap'[id].reqInPrev10Sec = 0
                       /\ WindowsDecide(id) => last'.admitted
                       /\ \/ last'.admitted
                          \/ last'.reason \in { "Global rate limit exceeded",
                                                "Global negative IP rate limit exceeded",
                                                "Connection limit exceeded" }
                          \/ /\ last'.reason = "IP rate limit exceeded"
                             /\ ~PositiveCaps ]_vars

\* C14 witness: a request has been admitted a clock minute after the previous
\* one of its address, whose count of 1 is now the count of the previous minute.
C14_Witness ==
    /\ Admitted
    /\ last.tracked
    /\ now >= T0 + 60000
    /\ heap[last.entry].reqInPrevMin = 1
    /\ heap[last.entry].reqInCurrentMin = 1

\* createPlastron has thrown: there is no configuration of an instance.
NoInstance == DOMAIN options = {}

\* C15: createPlastron throws 'rateLimitMessage is required in PlastronOptions'
\* exactly when rateLimitMessage is missing or empty, and then there is no
\* table, no counters, no registration in the registry and no timer of a retry,
\* now or later.
C15_MessageRequired ==
    /\ last.op = "createPlastron" =>
           LET u == last.userOptions
               invalid == \/ "rateLimitMessage" \notin DOMAIN u
                          \/ u.rateLimitMessage = ""
           IN  /\ invalid <=> last.error = "rateLimitMessage is required in PlastronOptions"
               /\ invalid <=> NoInstance
               /\ ~invalid => /\ last.error = Undefined
                              /\ DOMAIN monitoredIps = 0..(u.ipMonitorSize - 1)
                              /\ happyServer.plastron \/ happyServer.retry
    /\ NoInstance =>
           /\ DOMAIN monitoredIps = {}
           /\ DOMAIN ipData = {}
           /\ DOMAIN heap = {}
           /\ DOMAIN globalStats = {}
           /\ ~happyServer.plastron
           /\ ~happyServer.retry

\* C15 witness: createPlastron has thrown for an empty rateLimitMessage while
\* the registry is there to register with.
C15_Witness ==
    /\ last.op = "createPlastron"
    /\ "rateLimitMessage" \in DOMAIN last.userOptions
    /\ last.userOptions.rateLimitMessage = ""
    /\ last.error = "rateLimitMessage is required in PlastronOptions"
    /\ happyServer.extension = "object"
    /\ NoInstance

\* The four checks that reject a request
RejectionReasons ==
    { "Global rate limit exceeded", "Global negative IP rate limit exceeded",
      "IP rate limit exceeded", "Connection limit exceeded" }

\* C16: with debug mode off, the response of a rejected request is status 429
\* with the body {error: rateLimitMessage} whichever of the four checks
\* rejected it: the response is determined by the configuration alone.
C16_RejectionsIndistinguishable ==
    Rejected =>
        /\ last.reason \in RejectionReasons
        /\ ~options.enableDebug =>
               last.response = [status |-> 429, body |-> [error |-> options.rateLimitMessage]]

\* C16 witness: with debug mode off a request has been rejected by the
\* per-address rate check and answered with status 429 and the message alone.
C16_Witness ==
    /\ Rejected
    /\ ~options.enableDebug
    /\ last.reason = "IP rate limit exceeded"
    /\ last.response.status = 429
    /\ DOMAIN last.response.body = {"error"}

\* C17: a rejected request adds exactly 1 to rateLimited429InCurrentMin and
\* leaves the global request counters and the record of the address as the
\* window update left them; an admitted request adds exactly 1 to
\* reqInCurrentSec and reqInCurrentMin (and to negativeReqInCurrentSec when the
\* address is negative), and to the record's reqInCurrent10Sec, reqInCurrentMin
\* and connections, and leaves rateLimited429InCurrentMin and the points alone.
C17_CountersOfVerdict ==
    [][ MiddlewareStep =>
            LET id == last'.entry
                gs == updateGlobalStats(globalStats, now)
                updated == IF last'.tracked
                           THEN [updateTimeWindows(heap[id], now) EXCEPT !.lastSeenMs = now]
                           ELSE [heap'[id] EXCEPT !.reqInCurrent10Sec = 0,
                                                  !.reqInCurrentMin = 0,
                                                  !.connections = 0,
                                                  !.points = 0]
                negative == IF updated.points < 0 THEN 1 ELSE 0
            IN  IF last'.admitted
                THEN /\ globalStats' =
                            [gs EXCEPT !.reqInCurrentSec = gs.reqInCurrentSec + 1,
                                       !.reqInCurrentMin = gs.reqInCurrentMin + 1,
                                       !.negativeReqInCurrentSec =
                                            gs.negativeReqInCurrentSec + negative]
                     /\ heap'[id] =
                            [updated EXCEPT !.reqInCurrent10Sec = updated.reqInCurrent10Sec + 1,
                                            !.reqInCurrentMin = updated.reqInCurrentMin + 1,
                                            !.connections = updated.connections + 1]
                ELSE /\ globalStats' =
                            [gs EXCEPT !.rateLimited429InCurrentMin =
                                            gs.rateLimited429InCurrentMin + 1]
                     /\ heap'[id] = updated ]_vars

\* C17 witness: the second rejection of a minute has left the counter of
\* rejections at 2 and the count of requests of the second at what the one
\* admission made it.
C17_Witness ==
    /\ Rejected
    /\ globalStats.rateLimited429InCurrentMin = 2
    /\ globalStats.reqInCurrentSec + globalStats.reqInPrevSec = 1
    /\ secLog.admitted <= 1

\* A timer-fired step: processRequest runs for a delayed request
DispatchStep == last'.op = "processRequest" /\ pending' # pending

\* C18: every admitted request is dispatched (next called) exactly once and a
\* rejected one never. A request admitted with points at or above
\* ipSlowDownStartsAt is dispatched inside the middleware call; one admitted
\* with points below it is dispatched only by its timer, no earlier than the
\* slowdown delay (at least 100 ms) after admission, and the timer does fire.
C18_DispatchedOnce ==
    /\ [](\A i \in DOMAIN pending :
             /\ pending[i].stage \in {"delayed", "dispatched"}
             /\ pending[i].nextCalls = IF pending[i].stage = "dispatched" THEN 1 ELSE 0)
    /\ [][ MiddlewareStep =>
               IF ~last'.admitted THEN pending' = pending
               ELSE LET points == heap'[last'.entry].points
                        request == pending'[Len(pending')]
                        delay == timerDelay(calculateSlowdown(points, options))
                    IN  /\ Len(pending') = Len(pending) + 1
                        /\ SubSeq(pending', 1, Len(pending)) = pending
                        /\ request.entry = last'.entry
                        /\ IF points >= options.ipSlowDownStartsAt
                           THEN request.stage = "dispatched" /\ request.nextCalls = 1
                           ELSE /\ request.stage = "delayed" /\ request.nextCalls = 0
                                /\ delay >= 100
                                /\ request.dueMs = now + delay ]_vars
    /\ [][ DispatchStep =>
               \E i \in DOMAIN pending :
                   /\ pending[i].stage = "delayed"
                   /\ now >= pending[i].dueMs
                   /\ pending' = [pending EXCEPT ![i] = [@ EXCEPT !.stage = "dispatched",
                                                                  !.dueMs = 0,
                                                                  !.nextCalls = 1]] ]_vars
    /\ [][ ~MiddlewareStep /\ ~DispatchStep =>
               \/ pending' = pending
               \/ \E i \in DOMAIN pending :
                     pending[i].nextCalls = 1 /\ pending' = Remove(pending, i) ]_vars
    /\ []<>(Timers = {})

\* A timer has just dispatched a delayed request while a request that was
\* dispatched inside the middleware call is still open.
C18_Witness ==
    /\ last.op = "processRequest"
    /\ now >= T0 + 100
    /\ Len(pending) = 2
    /\ \A i \in DOMAIN pending : pending[i].nextCalls = 1

\* C19: the middleware call and the completion of a request from address A leave
\* the record of every other tracked address B as it was (points, connections,
\* window counters, lastSeenMs); the one effect they can have on B is that B
\* stops being tracked, evicted by the call that starts to track A.
C19_OtherAddressesUntouched ==
    [][ MiddlewareStep \/ SendStep =>
            \A B \in DOMAIN ipData \ {last'.ip} :
                \/ /\ B \in DOMAIN ipData'
                   /\ ipData'[B] = ipData[B]
                   /\ heap'[ipData[B]] = heap[ipData[B]]
                \/ /\ MiddlewareStep
                   /\ ~last'.tracked
                   /\ last'.evicted = B
                   /\ B \notin DOMAIN ipData' ]_vars

\* The first request of "a" has evicted one address while another one, with
\* requests and points of its own, stays tracked.
C19_Witness ==
    /\ last.op = "middleware"
    /\ last.ip = "a"
    /\ ~last.tracked
    /\ last.evicted \in Addresses \ {"a"}
    /\ \E B \in DOMAIN ipData \ {"a"} :
         /\ heap[ipData[B]].reqInCurrentMin > 0
         /\ heap[ipData[B]].points # 0

\* The record held by slot i of the table findEvictableIndex was evaluated on
Occupant(i) == last.table.heap[last.table.ipData[last.table.monitoredIps[i]]]

\* C21: when the slot of the first draw holds a record with points above 50000
\* or below -50000, the record is kept and another slot is drawn.
C21_ExtremeScoresKept ==
    ( /\ last.op = "findEvictableIndex"
      /\ last.table.monitoredIps[last.first] # Undefined
      /\ \/ Occupant(last.first).points > 50000
         \/ Occupant(last.first).points < -50000 )
    => last.result.draws = 2

\* C28: findEvictableIndex draws at most 2 slots. An empty slot is used at once.
\* On the first draw an occupied slot is chosen only if its occupant is not
\* protected (protected: -50000 <= points <= 50000 and now - lastSeenMs <
\* 300000); a protected occupant causes a second draw, and the slot of the
\* second draw is chosen whatever it holds.
C28_EvictionSlotSelection ==
    last.op = "findEvictableIndex" =>
        LET slots == last.table.monitoredIps
            protected == /\ Occupant(last.first).points >= -50000
                         /\ Occupant(last.first).points <= 50000
                         /\ now - Occupant(last.first).lastSeenMs < 300000
        IN  /\ last.result.draws <= 2
            /\ ~last.result.fallback
            /\ IF slots[last.first] = Undefined \/ ~protected
               THEN last.result.draws = 1 /\ last.result.index = last.first
               ELSE last.result.draws = 2 /\ last.result.index = last.second

\* The first draw met an address with 50000 points seen 299999 ms ago; the
\* second draw met another protected address, whose slot was chosen.
C28_Witness ==
    /\ last.op = "findEvictableIndex"
    /\ last.second # last.first
    /\ last.table.monitoredIps[last.first] # Undefined
    /\ last.table.monitoredIps[last.second] # Undefined
    /\ Occupant(last.first).points = 50000
    /\ Occupant(last.second).points = 0
    /\ now - Occupant(last.first).lastSeenMs = 299999
    /\ now - Occupant(last.second).lastSeenMs = 299999
    /\ last.result.index = last.second

\* The timer of the retry has run registerHappyServerExtension
RetryStep == last'.op = "registerHappyServerExtension" /\ happyServer' # happyServer

\* C22: an instance calls registerHappyServerExtension at most twice: once in
\* createPlastron and, only when that call found no registry, once more, 3000 ms
\* after construction or later. The retry registers the summary function when
\* the registry is there by then; nothing else ever registers it, so a registry
\* installed after the retry stays without it. A missing registry raises no
\* error, in createPlastron or in the retry.
C22_RegistrationAttempts ==
    /\ [](happyServer.attempts \in (IF NoInstance THEN {0} ELSE {1, 2}))
    /\ [](last.op = "createPlastron" /\ ~NoInstance =>
             /\ last.error = Undefined
             /\ happyServer.plastron <=> happyServer.extension = "object"
             /\ happyServer.retry <=> happyServer.extension = Undefined)
    /\ [](happyServer.retry => happyServer.attempts = 1 /\ ~happyServer.plastron)
    /\ [][ RetryStep =>
               /\ happyServer.retry /\ ~happyServer'.retry
               /\ happyServer.attempts = 1 /\ happyServer'.attempts = 2
               /\ now >= T0 + 3000
               /\ happyServer'.plastron <=> happyServer.extension = "object"
               /\ last'.result = happyServer'.plastron
               /\ happyServer'.extension = happyServer.extension ]_vars
    /\ [][ ~RetryStep => /\ happyServer'.attempts = happyServer.attempts
                         /\ happyServer'.plastron = happyServer.plastron
                         /\ happyServer'.retry = happyServer.retry ]_vars

\* The registry was installed after construction and the retry has registered
\* the summary function in it.
C22_Witness ==
    /\ last.op = "registerHappyServerExtension"
    /\ last.result
    /\ happyServer.attempts = 2
    /\ happyServer.plastron
    /\ now = T0 + 3000

\* C23: a request in the clock second (ceil(now / 1000)) of the request before it
\* triggers no rollover of the global per-second counters: reqInPrevSec stays,
\* and reqInCurrentSec and negativeReqInCurrentSec are not reset.
C23_OneRolloverPerSecond ==
    [][ MiddlewareStep /\ seen # {} /\ secLog.sec = Ceil(now, 1000) =>
            /\ globalStats'.reqInPrevSec = globalStats.reqInPrevSec
            /\ globalStats'.reqInCurrentSec >= globalStats.reqInCurrentSec
            /\ globalStats'.negativeReqInCurrentSec >= globalStats.negativeReqInCurrentSec ]_vars

\* C24: when more than one second boundary lies between a request and the global
\* update before it, reqInPrevSec is 0 after the request; when more than one
\* minute boundary lies between them, reqInPrevMin and rateLimited429InPrevMin
\* are 0.
C24_GlobalIdleGapReset ==
    [][ MiddlewareStep =>
            /\ Ceil(now, 1000) > secLog.sec + 1 => globalStats'.reqInPrevSec = 0
            /\ Ceil(now, 60000) > Ceil(secLog.sec, 60) + 1 =>
                   /\ globalStats'.reqInPrevMin = 0
                   /\ globalStats'.rateLimited429InPrevMin = 0 ]_vars

\* C25: for lastSeenMs <= nowMs and each of the periods 10000 and 60000 on its
\* own, with boundary(t) = ceil(t / period): updateTimeWindows leaves current
\* and previous as they are when the boundary is the same, sets previous to the
\* old current and current to 0 when the boundary advanced by exactly 1, and
\* sets both to 0 when it advanced by more. Nothing else of the record changes.
C25_BoundaryContract ==
    last.op = "updateTimeWindows" =>
        LET d == last.ipData
            r == last.result
            boundary(t, period) == (t + period - 1) \div period
            advance(period) == boundary(last.nowMs, period) - boundary(d.lastSeenMs, period)
            contract(current, previous, period) ==
                IF advance(period) = 0 THEN <<current, previous>>
                ELSE IF advance(period) = 1 THEN <<0, current>>
                ELSE <<0, 0>>
        IN  /\ d.lastSeenMs <= last.nowMs
            /\ <<r.reqInCurrent10Sec, r.reqInPrev10Sec>>
                   = contract(d.reqInCurrent10Sec, d.reqInPrev10Sec, 10000)
            /\ <<r.reqInCurrentMin, r.reqInPrevMin>>
                   = contract(d.reqInCurrentMin, d.reqInPrevMin, 60000)
            /\ r = [d EXCEPT !.reqInCurrent10Sec = r.reqInCurrent10Sec,
                             !.reqInPrev10Sec = r.reqInPrev10Sec,
                             !.reqInCurrentMin = r.reqInCurrentMin,
                             !.reqInPrevMin = r.reqInPrevMin]

\* 10001 ms after a request at the very end of a 10-second window: two
\* 10-second boundaries are crossed and no minute boundary, so the 10-second
\* counters are reset and the minute counters are as before.
C25_Witness ==
    /\ last.op = "updateTimeWindows"
    /\ last.ipData.lastSeenMs = T0
    /\ last.nowMs = T0 + 10001
    /\ last.result.reqInCurrent10Sec = 0
    /\ last.result.reqInPrev10Sec = 0
    /\ last.result.reqInCurrentMin = 3
    /\ last.result.reqInPrevMin = 4

\* C26: a request is admitted only if (reqInCurrent10Sec + reqInPrev10Sec) / 10
\* of its address, before the request is counted, is below maxReqPerSecPerIP
\* when the points are >= 0 and below maxReqNegativePerSecPerIP when they are
\* negative; and for every record reqInCurrent10Sec + reqInPrev10Sec is at most
\* 10 times the larger of the two caps.
C26_PerAddressRateCap ==
    /\ [][ MiddlewareStep /\ last'.admitted =>
               LET d == heap'[last'.entry]
                   cap == IF d.points >= 0 THEN options.maxReqPerSecPerIP
                          ELSE options.maxReqNegativePerSecPerIP
               IN  (d.reqInCurrent10Sec - 1) + d.reqInPrev10Sec < 10 * cap ]_vars
    /\ [](\A id \in DOMAIN heap :
             heap[id].reqInCurrent10Sec + heap[id].reqInPrev10Sec
                 <= 10 * Max(options.maxReqPerSecPerIP, options.maxReqNegativePerSecPerIP))

\* The address has 10 requests in its two 10-second windows, some in each, and
\* its next request is rejected with its points at 0 or above.
C26_Witness ==
    /\ Rejected
    /\ last.reason = "IP rate limit exceeded"
    /\ heap[last.entry].points >= 0
    /\ heap[last.entry].reqInPrev10Sec > 0
    /\ heap[last.entry].reqInCurrent10Sec > 0
    /\ heap[last.entry].reqInCurrent10Sec + heap[last.entry].reqInPrev10Sec = 10

\* The checks that fail for the request of a middleware step, on the global
\* counters and the record of the address as the window updates leave them.
FailingChecks ==
    LET gs == updateGlobalStats(globalStats, now)
        d == IF last'.tracked
             THEN [updateTimeWindows(heap[last'.entry], now) EXCEPT !.lastSeenMs = now]
             ELSE newIpData(last'.ip, heap'[last'.entry].index, now)
        cap == IF d.points >= 0 THEN options.maxReqPerSecPerIP
               ELSE options.maxReqNegativePerSecPerIP
    IN  (IF /\ options.maxRequestRatePerSec > 0
            /\ (gs.reqInCurrentSec + gs.reqInPrevSec) * 1000
                  >= options.maxRequestRatePerSec * Max(1000, now - gs.prevSecStartMs)
         THEN {"Global rate limit exceeded"} ELSE {})
        \cup
        (IF /\ options.maxRequestNegativeIPperSec > 0
            /\ d.points < 0
            /\ gs.negativeReqInCurrentSec >= options.maxRequestNegativeIPperSec
         THEN {"Global negative IP rate limit exceeded"} ELSE {})
        \cup
        (IF d.reqInCurrent10Sec + d.reqInPrev10Sec >= 10 * cap
         THEN {"IP rate limit exceeded"} ELSE {})
        \cup
        (IF d.connections >= calculateMaxConnections(d.points, options)
         THEN {"Connection limit exceeded"} ELSE {})

\* The order in which the middleware makes its checks
CheckOrder ==
    << "Global rate limit exceeded", "Global negative IP rate limit exceeded",
       "IP rate limit exceeded", "Connection limit exceeded" >>

\* C27: a request is rejected exactly when one of the four checks fails, and
\* then by the first failing check in the order global rate, global negative
\* rate, per-address rate, connection limit: in debug mode the response names
\* that check, and the counter of rejected requests goes up by 1.
C27_FirstFailingCheckDecides ==
    [][ MiddlewareStep =>
            /\ last'.admitted <=> FailingChecks = {}
            /\ ~last'.admitted =>
                   LET first == CHOOSE i \in 1..4 :
                                    /\ CheckOrder[i] \in FailingChecks
                                    /\ \A j \in 1..(i - 1) : CheckOrder[j] \notin FailingChecks
                   IN  /\ last'.reason = CheckOrder[first]
                       /\ options.enableDebug =>
                              last'.response.body.reason = CheckOrder[first]
                       /\ globalStats'.rateLimited429InCurrentMin
                              = updateGlobalStats(globalStats, now).rateLimited429InCurrentMin + 1
       ]_vars

\* In debug mode a request was rejected by the global rate check while its
\* address was at its connection cap as well.
C27_Witness ==
    /\ Rejected
    /\ options.enableDebug
    /\ last.response.body.reason = "Global rate limit exceeded"
    /\ heap[last.entry].connections
          >= calculateMaxConnections(heap[last.entry].points, options)

\* C29: when an admitted request of address A completes while A is tracked, the
\* record tracked for A, getIpData(A), has its points changed by the score of
\* the completion and its connections decreased by one, also when A was evicted
\* and tracked anew since the request was admitted.
C29_CompletionUpdatesTrackedRecord ==
    [][ SendStep /\ last'.ip \in DOMAIN ipData =>
            LET d == heap[ipData[last'.ip]]
                r == heap'[ipData'[last'.ip]]
            IN  /\ r.points = d.points + calculatePoints(last'.statusCode, options)
                                      + checkExcessiveUsage(d, options)
                /\ r.connections = d.connections - 1 ]_vars

\* C30: while the completion hook of an admitted request has not been invoked,
\* the record tracked for the address of the request has connections >= 1,
\* whatever requests have followed.
C30_LeakedSlotForever ==
    \A i \in DOMAIN pending :
        pending[i].ip \in DOMAIN ipData => heap[ipData[pending[i].ip]].connections >= 1

\* C31: the penalty for excessive use is pointsForExcessiveRequest once when
\* (reqInCurrent10Sec + reqInPrev10Sec) / 10 exceeds excessiveReqPerS requests
\* per second, plus once when the requests of the address per minute exceed
\* excessiveReqPerMin.
C31_ExcessivePenalty ==
    last.op = "checkExcessiveUsage" =>
        LET d == last.ipData
            perSecond == IF d.reqInCurrent10Sec + d.reqInPrev10Sec > 10 * options.excessiveReqPerS
                         THEN options.pointsForExcessiveRequest ELSE 0
            perMinute == IF d.reqInCurrentMin + d.reqInPrevMin > options.excessiveReqPerMin
                         THEN options.pointsForExcessiveRequest ELSE 0
        IN  last.result = perSecond + perMinute

C33_RecordLifecycle ==
    [][ LET created == DOMAIN ipData' \ DOMAIN ipData
            removed == DOMAIN ipData \ DOMAIN ipData'
            kept == DOMAIN ipData' \cap DOMAIN ipData
            creating == /\ MiddlewareStep
                        /\ ~last'.tracked
                        /\ last'.ip \notin DOMAIN ipData
            own == IF last'.admitted THEN 1 ELSE 0
        IN  /\ \A ip \in kept : ipData'[ip] = ipData[ip]
            /\ created # {} => creating /\ created = {last'.ip}
            /\ removed # {} => creating /\ removed = {last'.evicted}
            /\ creating =>
                  /\ created = {last'.ip}
                  /\ ipData'[last'.ip] \notin DOMAIN heap
                  /\ heap'[ipData'[last'.ip]] =
                        [ ip |-> last'.ip,
                          index |-> heap'[ipData'[last'.ip]].index,
                          lastSeenMs |-> now,
                          points |-> 0,
                          connections |-> own,
                          reqInCurrentMin |-> own,
                          reqInPrevMin |-> 0,
                          reqInCurrent10Sec |-> own,
                          reqInPrev10Sec |-> 0 ] ]_vars

\* An address tracked anew, by an eviction, while an earlier request of it is
\* still open against the record it had before.
C33_Witness ==
    /\ last.op = "middleware"
    /\ ~last.tracked
    /\ last.evicted \in {"a", "b", "c"}
    /\ \E i \in DOMAIN pending : pending[i].ip = last.ip /\ pending[i].entry # last.entry
    /\ heap[ipData[last.ip]].points = 0

\* The requests admitted against the record object id whose send hook has not run
OpenRequests(id) == {i \in DOMAIN pending : pending[i].entry = id}

\* C34: with one run of the completion hook per admitted request, connections
\* of every record is the number of requests admitted against that record and
\* not yet completed, so the decrement of a completion never meets the floor
\* at 0, and when no admitted request is open every tracked record has
\* connections 0.
C34_ConnectionsCountOpenRequests ==
    /\ \A id \in DOMAIN heap : heap[id].connections = Cardinality(OpenRequests(id))
    /\ \A i \in DOMAIN pending : heap[pending[i].entry].connections - 1 >= 0
    /\ pending = <<>> => \A ip \in DOMAIN ipData : heap[ipData[ip]].connections = 0

\* A completion that leaves a second request of the same record open.
C34_Witness ==
    /\ last.op = "send"
    /\ last.entry \in DOMAIN heap
    /\ heap[last.entry].connections = 1
    /\ Cardinality(OpenRequests(last.entry)) = 1
    /\ Len(pending) > 1

\* The requests of the address ip admitted and not yet completed
OpenRequestsOf(ip) == {i \in DOMAIN pending : pending[i].ip = ip}

\* C35: the number of requests of one address admitted and not yet completed
\* never exceeds the larger of the two per-address connection caps, whatever
\* other addresses, evictions and completions happen in between.
C35_OpenRequestsWithinCap ==
    \A ip \in seen :
        Cardinality(OpenRequestsOf(ip)) <= Max(options.maxSimultanousConnectionsPerIP,
                                              options.maxSimultanousConnectionsNegativePerIP)

\* C36: in every state the global counter negativeReqInCurrentSec is at most
\* reqInCurrentSec, and with maxRequestNegativeIPperSec > 0 it is at most
\* maxRequestNegativeIPperSec.
C36_NegativeCounterBounds ==
    /\ globalStats.negativeReqInCurrentSec <= globalStats.reqInCurrentSec
    /\ options.maxRequestNegativeIPperSec > 0
          => globalStats.negativeReqInCurrentSec <= options.maxRequestNegativeIPperSec

\* A negative address rejected with the counter at its cap, after a request of
\* an address that is not negative was counted in the same second.
C36_Witness ==
    /\ last.op = "middleware"
    /\ ~last.admitted
    /\ last.reason = "Global negative IP rate limit exceeded"
    /\ options.maxRequestNegativeIPperSec > 0
    /\ globalStats.negativeReqInCurrentSec = options.maxRequestNegativeIPperSec
    /\ globalStats.reqInCurrentSec > globalStats.negativeReqInCurrentSec

\* C37: with excessiveReqPerS at or above both per-address rate caps, no
\* completion applies the penalty of the 10-second rate: the points change by
\* the points of the status code and the penalty of the minute rate alone.
C37_NoTenSecondPenalty ==
    [][ ( /\ SendStep
          /\ options.excessiveReqPerS >= Max(options.maxReqPerSecPerIP,
                                             options.maxReqNegativePerSecPerIP)
          /\ last'.entry \in DOMAIN heap' )
        => LET d == heap[last'.entry]
               idle == [d EXCEPT !.reqInCurrent10Sec = 0, !.reqInPrev10Sec = 0]
           IN  heap'[last'.entry].points - d.points =
                   calculatePoints(last'.statusCode, options)
                       + checkExcessiveUsage(idle, options) ]_vars

\* A completion with the 10-second rate of the address exactly at
\* excessiveReqPerS, which equals the rate cap.
C37_Witness ==
    /\ last.op = "send"
    /\ last.entry \in DOMAIN heap
    /\ options.excessiveReqPerS = Max(options.maxReqPerSecPerIP,
                                      options.maxReqNegativePerSecPerIP)
    /\ heap[last.entry].reqInCurrent10Sec + heap[last.entry].reqInPrev10Sec
           = 10 * options.excessiveReqPerS
    /\ heap[last.entry].points > 0

\* The requests admitted against the record object id whose timer has not fired
DelayedRequests(id) == {i \in OpenRequests(id) : pending[i].stage = "delayed"}

\* C38: a request admitted with a slowdown is counted in connections and in the
\* window counters of its record by the middleware call that admits it, and the
\* firing of its timer changes no record and no global counter; a request of
\* the same address during the delay is checked against connections that
\* include the delayed request; connections of a record falls only by the send
\* hook of a request that has been dispatched.
C38_CountedFromAdmission ==
    [][ /\ ( /\ MiddlewareStep
             /\ last'.admitted
             /\ FracGT(last'.slowdownMs, 0) )
           => LET before == IF last'.tracked
                            THEN updateTimeWindows(heap[last'.entry], now)
                            ELSE newIpData(last'.ip, 0, now)
                  after == heap'[last'.entry]
              IN  /\ pending'[Len(pending')].stage = "delayed"
                  /\ after.connections = before.connections + 1
                  /\ after.reqInCurrent10Sec = before.reqInCurrent10Sec + 1
                  /\ after.reqInCurrentMin = before.reqInCurrentMin + 1
        /\ last'.op = "processRequest" => UNCHANGED <<heap, globalStats, ipData, monitoredIps>>
        /\ ( /\ MiddlewareStep
             /\ last'.tracked
             /\ DelayedRequests(last'.entry) # {} )
           => LET d == heap[last'.entry]
              IN  /\ d.connections >= Cardinality(DelayedRequests(last'.entry))
                  /\ last'.admitted
                        => d.connections < calculateMaxConnections(d.points, options)
        /\ \A id \in DOMAIN heap :
              (id \in DOMAIN heap' /\ heap'[id].connections < heap[id].connections)
                 => /\ SendStep
                    /\ \E i \in OpenRequests(id) :
                         /\ pending[i].stage = "dispatched"
                         /\ pending' = Remove(pending, i) ]_vars

\* A request rejected by the connection check while the only open request of
\* its address is waiting for its timer.
C38_Witness ==
    /\ Rejected
    /\ last.reason = "Connection limit exceeded"
    /\ Len(pending) = 1
    /\ pending[1].stage = "delayed"
    /\ pending[1].entry = last.entry
    /\ heap[last.entry].connections = 1

\* C39: a completion changes nothing but points and connections of the record
\* its request was admitted against: the window counters and lastSeenMs of that
\* record, every other record, the global counters, the slot array and the
\* tracked addresses stay as they were, and an address evicted in the meantime
\* stays untracked.
C39_CompletionFrame ==
    [][ SendStep =>
          /\ UNCHANGED <<globalStats, monitoredIps, ipData>>
          /\ DOMAIN heap' \subseteq DOMAIN heap
          /\ \A id \in DOMAIN heap' :
                IF id = last'.entry
                THEN heap'[id] = [heap[id] EXCEPT !.points = heap'[id].points,
                                                  !.connections = heap'[id].connections]
                ELSE heap'[id] = heap[id]
          /\ last'.ip \notin DOMAIN ipData => last'.ip \notin DOMAIN ipData' ]_vars

\* The completion of a request whose address has been evicted and is not
\* tracked, with another request of the old record still open.
C39_Witness ==
    /\ last.op = "send"
    /\ last.ip \notin DOMAIN ipData
    /\ last.entry \in DOMAIN heap
    /\ heap[last.entry].ip = last.ip
    /\ heap[last.entry].connections = 1

\* C40: findEvictableIndex ends after one or two random draws, returns from
\* inside its loop the slot it drew last, an index of the table, and never
\* reaches the return after the loop.
C40_EvictionTerminates ==
    last.op = "findEvictableIndex" =>
        /\ last.result.draws \in 1..maxAttempts
        /\ last.result.fallback = FALSE
        /\ last.result.index \in DOMAIN last.table.monitoredIps
        /\ last.result.index = IF last.result.draws = 1 THEN last.first ELSE last.second

\* The same slot drawn twice, its occupant protected both times: the second
\* draw is the last attempt and its slot is returned.
C40_Witness ==
    /\ last.op = "findEvictableIndex"
    /\ last.first = last.second
    /\ last.table.monitoredIps[last.first] # Undefined
    /\ isInPreferredRange(Occupant(last.first))
    /\ isRecentlyActive(Occupant(last.first), now)
    /\ last.result.draws = maxAttempts
    /\ last.result.index = last.first

====
